---- MODULE Spec2Model ----
(***************************************************************************)
(* A model of Rex (src/index.js): the observable store (ref, reactive),    *)
(* the dependency graph (_Dependency), the batch scheduler (_BatchUpdater),*)
(* the expression evaluator (_ExpressionParser), the element and text-node *)
(* bindings (_processElement, _processTextNode) and the two repetition     *)
(* directives (r-for, r-arr).                                              *)
(*                                                                         *)
(* The program is single threaded.  Every handler is modelled as a         *)
(* function from program state to program state (a record holding every    *)
(* field of the program), and every action applies one whole handler.      *)
(* A requestAnimationFrame callback is the action DoFrame; the callback of *)
(* the bootstrap's MutationObserver runs at the end of the task that       *)
(* changed the document.  The markup inside the elements of the model is   *)
(* plain text.  console.warn and console.error are left out.               *)
(***************************************************************************)
EXTENDS Integers, Sequences, FiniteSets, TLC

VARIABLES
    queue,        \* _BatchUpdater._queue: an insertion-ordered Set of closures
    isUpdating,   \* _BatchUpdater._isUpdating
    rafPending,   \* number of requestAnimationFrame callbacks not yet run
    activeFns,    \* _activeFns: the stack of executing update closures
    deps,         \* heap of _Dependency instances
    refs,         \* heap of ref() cells
    objs,         \* heap of raw records / arrays (with their reactive marks)
    fns,          \* heap of update closures
    nodes,        \* heap of DOM nodes
    dirs,         \* heap of r-for / r-arr directive instances
    directives,   \* _directives: the Map from directive name to handler
    bindings,     \* the page script's top-level bindings (const n = ref(0), ...)
    lastIndex,    \* _INTERPOLATION_REGEX.lastIndex: the pattern has the g flag
    router,       \* _Router, with the browser's location, history and timers
    components,   \* _componentTemplates, window's script properties, _componentInstances
    log,          \* events of the last handler: notifications, executions
    op,           \* the last handler that ran, with its input
    ret           \* what the last handler returned

vars == <<queue, isUpdating, rafPending, activeFns, deps, refs, objs, fns,
          nodes, dirs, directives, bindings, lastIndex, router, components,
          log, op, ret>>

(***************************************************************************)
(* Bounds of the model.                                                    *)
(***************************************************************************)
MaxWrites == 3      \* the count of successive changing writes saturates here
MaxArrLen == 2      \* arrays never grow beyond this length
MaxNodes == 14      \* no write is made once the DOM heap holds this many nodes
MaxCount == 3       \* the largest count r-for is given
MaxDeps == 7        \* reactive() is not called once this many nodes were built

(***************************************************************************)
(* JavaScript values.                                                      *)
(***************************************************************************)
Num(i) == [k |-> "num", n |-> i]
NaN == [k |-> "nan"]
Undefined == [k |-> "undefined"]
Str(s) == [k |-> "str", s |-> s]
RefV(i) == [k |-> "ref", id |-> i]
Raw(i) == [k |-> "raw", id |-> i]
Proxy(i) == [k |-> "proxy", id |-> i]
Absent == [k |-> "absent"]          \* a missing property / an array hole
True == [k |-> "bool", b |-> TRUE]
\* a Symbol()
Sym == [k |-> "symbol"]
Null == [k |-> "null"]
\* a function
FunctionV == [k |-> "function"]
\* a function that throws when it is called
Thrower == [k |-> "function", name |-> "throws"]
\* new Date(), /x/, new Map(), new Set()
Instance(class) == [k |-> "instance", class |-> class]
NoVar == "<null>"                   \* the null default of a `variable` argument

\* typeof v === "object" && v !== null, for a value that may be a record or
\* a sequence of the heap
IsObj(v) == v.k \in {"raw", "proxy"}

\* a === b
StrictEq(a, b) == a = b /\ a.k # "nan"

\* Number.isNaN(a)
IsNaN(a) == a.k = "nan"

\* insertion-ordered Set.add
SetAdd(seq, x) == IF \E i \in 1..Len(seq) : seq[i] = x THEN seq ELSE Append(seq, x)

Range(seq) == {seq[i] : i \in 1..Len(seq)}

Min(a, b) == IF a < b THEN a ELSE b
Max(a, b) == IF a > b THEN a ELSE b

\* the sequence a function over 1..n is
List(f) == f \o <<>>

\* const x = value; rest(x): value is computed before rest is entered
Bind(value, rest(_)) == CASE {value} # {} -> rest(value)

(***************************************************************************)
(* Strings are sequences of one-character strings.                         *)
(***************************************************************************)
Letters == {"a", "b", "c", "d", "e", "f", "i", "j", "l", "m", "n", "o", "p", "r", "s", "t",
            "u", "v", "x", "N"}
Digits == {"0", "1", "2", "3", "4", "5", "6", "7", "8", "9"}

DigitOf(d) == CASE d = "0" -> 0 [] d = "1" -> 1 [] d = "2" -> 2 [] d = "3" -> 3
                [] d = "4" -> 4 [] d = "5" -> 5 [] d = "6" -> 6 [] d = "7" -> 7
                [] d = "8" -> 8 [] d = "9" -> 9

DigitChar(i) == CHOOSE d \in Digits : DigitOf(d) = i

RECURSIVE NatToChars(_)
NatToChars(i) == IF i < 10 THEN <<DigitChar(i)>>
                 ELSE NatToChars(i \div 10) \o <<DigitChar(i % 10)>>

RECURSIVE Join(_)
\* the characters of a string glued into one name
Join(cs) == IF cs = <<>> THEN "" ELSE Head(cs) \o Join(Tail(cs))

\* String(v) throws a TypeError: v is a Symbol
NoString(v) == v.k = "symbol"

\* String(v); the conversions that are not a call of String are guarded by
\* NoString
JsString(v) ==
    CASE v.k = "num" -> IF v.n < 0 THEN <<"-">> \o NatToChars(-v.n) ELSE NatToChars(v.n)
      [] v.k = "nan" -> <<"N", "a", "N">>
      [] v.k = "undefined" -> <<"u", "n", "d", "e", "f", "i", "n", "e", "d">>
      [] v.k = "str" -> v.s
      [] v.k = "bool" -> IF v.b THEN <<"t", "r", "u", "e">> ELSE <<"f", "a", "l", "s", "e">>
      [] v.k = "symbol" -> <<"S", "y", "m", "b", "o", "l", "(", ")">>
      [] OTHER -> <<"[", "o", "b", "j", "e", "c", "t", "]">>

\* str.slice(from, to) with 0-based, end-exclusive positions
Slice(cs, from, to) == IF to <= from THEN <<>> ELSE SubSeq(cs, from + 1, to)

RECURSIVE TrimLeft(_)
TrimLeft(cs) == IF cs # <<>> /\ Head(cs) = " " THEN TrimLeft(Tail(cs)) ELSE cs

RECURSIVE TrimRight(_)
TrimRight(cs) == IF cs # <<>> /\ cs[Len(cs)] = " "
                 THEN TrimRight(SubSeq(cs, 1, Len(cs) - 1)) ELSE cs

\* str.trim()
Trim(cs) == TrimRight(TrimLeft(cs))

StartsWith(cs, p) == Len(cs) >= Len(p) /\ SubSeq(cs, 1, Len(p)) = p
EndsWith(cs, p) == Len(cs) >= Len(p) /\ SubSeq(cs, Len(cs) - Len(p) + 1, Len(cs)) = p

Drop(cs, n) == SubSeq(cs, n + 1, Len(cs))
Take(cs, n) == SubSeq(cs, 1, n)

(***************************************************************************)
(* The program state as one record, threaded through every handler.        *)
(***************************************************************************)
Cur == [queue |-> queue, isUpdating |-> isUpdating, rafPending |-> rafPending,
        activeFns |-> activeFns, deps |-> deps, refs |-> refs, objs |-> objs,
        fns |-> fns, nodes |-> nodes, dirs |-> dirs, directives |-> directives,
        bindings |-> bindings, lastIndex |-> lastIndex, router |-> router,
        components |-> components, log |-> <<>>, thrown |-> FALSE]

Install(s) ==
    /\ queue' = s.queue
    /\ isUpdating' = s.isUpdating
    /\ rafPending' = s.rafPending
    /\ activeFns' = s.activeFns
    /\ deps' = s.deps
    /\ refs' = s.refs
    /\ objs' = s.objs
    /\ fns' = s.fns
    /\ nodes' = s.nodes
    /\ dirs' = s.dirs
    /\ directives' = s.directives
    /\ bindings' = s.bindings
    /\ lastIndex' = s.lastIndex
    /\ router' = s.router
    /\ components' = s.components
    /\ log' = s.log

Logged(s, e) == [s EXCEPT !.log = Append(@, e)]

\* _Router as the script is loaded: no route, no page, no current path; the
\* browser at a URL with no path parameter, one history entry, no timer, no
\* popstate listener
NoRouter ==
    [routes |-> <<>>, currentPath |-> "", pageContainers |-> <<>>,
     originalPageElements |-> <<>>, location |-> "", entries |-> <<"">>, index |-> 1,
     timers |-> <<>>, listeners |-> 0]

\* no component template, no factory under window[compName]
NoComponents == [templates |-> <<>>, window |-> <<>>, instances |-> <<>>]

\* the state an exception leaves while it propagates, and the state a catch
\* block starts from
Throw(s) == [s EXCEPT !.thrown = TRUE]
Caught(s) == [s EXCEPT !.thrown = FALSE]

\* what the caller of a handler gets: the exception that escaped it, if any
Thrown == [k |-> "thrown"]
Escaped(s) == IF s.thrown THEN Thrown ELSE Undefined

\* a handler's result: the state it leaves and the value it returns
Result(s, v) == [s |-> s, v |-> v]

\* Every handler that calls other handlers is reached through Call, defined
\* at the end of the module; F_ below is the call of handler F.
RECURSIVE Call(_, _)
RunFn_(s, f) == Call(s, [f |-> "RunFn", fn |-> f]).s
Reactive_(s, target) == Call(s, [f |-> "Reactive", target |-> target])
ProxyGet_(s, x, prop) == Call(s, [f |-> "ProxyGet", x |-> x, prop |-> prop])
ProxySet_(s, x, prop, value) ==
    Call(s, [f |-> "ProxySet", x |-> x, prop |-> prop, value |-> value]).s
ProxyDelete_(s, x, prop) == Call(s, [f |-> "ProxyDelete", x |-> x, prop |-> prop]).s
ArrayMethod_(s, x, method, args) ==
    Call(s, [f |-> "ArrayMethod", x |-> x, method |-> method, args |-> args])
Parse_(s, expr, scope, names) ==
    Call(s, [f |-> "Parse", expr |-> expr, scope |-> scope, names |-> names])
ParseText_(s, text, scope, names) ==
    Call(s, [f |-> "ParseText", text |-> text, scope |-> scope, names |-> names])
ProcessTextNode_(s, node, scope) ==
    Call(s, [f |-> "ProcessTextNode", node |-> node, scope |-> scope]).s
ProcessElement_(s, el, scope) ==
    Call(s, [f |-> "ProcessElement", el |-> el, scope |-> scope]).s

(***************************************************************************)
(* _BatchUpdater                                                           *)
(***************************************************************************)
\* _BatchUpdater._scheduleUpdate
ScheduleUpdate(s) == [s EXCEPT !.isUpdating = TRUE, !.rafPending = @ + 1]

\* a scheduler that runs the closure inside add()
BatchAddSync(s, fn) == RunFn_(s, fn)

\* a scheduler whose queue is a list: a closure added twice is held twice
BatchAddList(s, fn) ==
    IF ~s.isUpdating THEN ScheduleUpdate([s EXCEPT !.queue = Append(@, fn)])
    ELSE [s EXCEPT !.queue = Append(@, fn)]

\* a scheduler whose add moves a closure that is queued already to the end
BatchAddMove(s, fn) ==
    IF ~s.isUpdating
    THEN ScheduleUpdate([s EXCEPT !.queue = Append(SelectSeq(@, LAMBDA g : g # fn), fn)])
    ELSE [s EXCEPT !.queue = Append(SelectSeq(@, LAMBDA g : g # fn), fn)]

\* _BatchUpdater.add (every closure of the model is a function)
BatchAdd(s, fn) ==
    IF ~s.isUpdating THEN ScheduleUpdate([s EXCEPT !.queue = SetAdd(@, fn)])
    ELSE [s EXCEPT !.queue = SetAdd(@, fn)]

RECURSIVE AddAll(_, _)
\* for (const fn of targets) _BatchUpdater.add(fn)
AddAll(s, targets) ==
    IF targets = <<>> THEN s ELSE AddAll(BatchAdd(s, Head(targets)), Tail(targets))

RECURSIVE RunAllStop(_, _)
\* a forEach without the try: the first closure that throws ends the loop
RunAllStop(s, queueCopy) ==
    IF queueCopy = <<>> \/ s.thrown THEN s
    ELSE RunAllStop(RunFn_(s, Head(queueCopy)), Tail(queueCopy))

RECURSIVE RunAll(_, _)
\* queueCopy.forEach(fn => { try { fn.call(null) } catch (e) { console.error } })
RunAll(s, queueCopy) ==
    IF queueCopy = <<>> THEN s
    ELSE Bind(RunFn_(s, Head(queueCopy)), LAMBDA s1 :
              RunAll(IF s1.thrown
                     THEN Logged(Caught(s1), [ev |-> "error", fn |-> Head(queueCopy)])
                     ELSE s1,
                     Tail(queueCopy)))

RECURSIVE Drain(_)
\* a loop that takes closures off the live queue until it is empty
Drain(s) ==
    IF s.queue = <<>> THEN s
    ELSE Drain(RunAll([s EXCEPT !.queue = Tail(@)], <<Head(s.queue)>>))

\* an _executeQueue that works on the live queue
ExecuteQueueLive(s) == [Drain(s) EXCEPT !.isUpdating = FALSE]

\* _BatchUpdater._executeQueue: the flag is cleared when forEach returns
ExecuteQueue(s) ==
    Bind(RunAll([s EXCEPT !.queue = <<>>], s.queue), LAMBDA s1 :
         IF s1.thrown THEN s1 ELSE [s1 EXCEPT !.isUpdating = FALSE])

(***************************************************************************)
(* _Dependency                                                             *)
(***************************************************************************)
NewDep == [subscribers |-> <<>>, varSubs |-> <<>>, notificationDisabled |-> FALSE,
           proxy |-> FALSE]

\* varSubs is a Map: a sequence of [key, subs] entries here
HasVar(dep, variable) == \E i \in 1..Len(dep.varSubs) : dep.varSubs[i].key = variable

VarSubsOf(dep, variable) ==
    dep.varSubs[CHOOSE i \in 1..Len(dep.varSubs) : dep.varSubs[i].key = variable].subs

\* this.varSubs after subscribe(fn, variable), for a truthy variable
VarSubsAdd(varSubs, fn, variable) ==
    IF \E i \in 1..Len(varSubs) : varSubs[i].key = variable
    THEN List([i \in 1..Len(varSubs) |->
                  IF varSubs[i].key = variable
                  THEN [varSubs[i] EXCEPT !.subs = SetAdd(@, fn)] ELSE varSubs[i]])
    ELSE Append(varSubs, [key |-> variable, subs |-> <<fn>>])

\* a subscribe that files a keyed subscription under its key only
DepSubscribeKeyed(s, d, fn, variable) ==
    IF variable # NoVar /\ variable # ""
    THEN [s EXCEPT !.deps[d].varSubs = VarSubsAdd(@, fn, variable)]
    ELSE [s EXCEPT !.deps[d].subscribers = SetAdd(@, fn)]

\* _Dependency.subscribe
DepSubscribe(s, d, fn, variable) ==
    [s EXCEPT !.deps[d].subscribers = SetAdd(@, fn),
              !.deps[d].varSubs = IF variable # NoVar /\ variable # ""
                                  THEN VarSubsAdd(@, fn, variable) ELSE @]

\* the subscribers a notification is for
NotifyTargets(dep, variable) ==
    IF variable # NoVar /\ variable # "" /\ HasVar(dep, variable)
    THEN VarSubsOf(dep, variable) ELSE dep.subscribers

\* _Dependency.notify
DepNotify(s, d, variable) ==
    AddAll(Logged(s, [ev |-> "notify", dep |-> d, key |-> variable]),
           NotifyTargets(s.deps[d], variable))

\* the closure at the bottom of _activeFns
Bottom(s) == s.activeFns[1]

\* the closure on top of _activeFns
Top(s) == s.activeFns[Len(s.activeFns)]

(***************************************************************************)
(* ref                                                                     *)
(***************************************************************************)
\* window.ref: get value()
RefGet(s, r) ==
    Result(IF Len(s.activeFns) > 0 THEN DepSubscribe(s, s.refs[r].dep, Top(s), NoVar)
           ELSE s,
           s.refs[r].value)

\* a setter that stores the value and tells nobody
RefSetQuiet(s, r, newValue) == [s EXCEPT !.refs[r].value = newValue]

\* window.ref: set value(newValue)
RefSet(s, r, newValue) ==
    IF ~StrictEq(s.refs[r].value, newValue)
    THEN DepNotify([s EXCEPT !.refs[r].value = newValue], s.refs[r].dep, NoVar)
    ELSE s

(***************************************************************************)
(* Raw records and arrays.  A record keeps its properties in insertion     *)
(* order; an array keeps its elements, Absent marking a hole.  The marks   *)
(* __isReactive and __isReactiveProxy are own properties of the raw        *)
(* object: the first is defined on it directly, the second through the     *)
(* proxy, whose handler has no defineProperty trap.                        *)
(***************************************************************************)
NewRecord(props) == [isArray |-> FALSE, props |-> props, elems |-> <<>>,
                     isReactive |-> FALSE, isReactiveProxy |-> FALSE, dep |-> 0,
                     extensible |-> TRUE]
NewArray(elems) == [isArray |-> TRUE, props |-> <<>>, elems |-> elems,
                    isReactive |-> FALSE, isReactiveProxy |-> FALSE, dep |-> 0,
                    extensible |-> TRUE]

\* Object.freeze(o), Object.preventExtensions(o)
NonExtensible(o) == [o EXCEPT !.extensible = FALSE]

arrayMethods == {"push", "pop", "shift", "unshift", "splice", "sort", "reverse"}
MethodV(m) == [k |-> "method", name |-> m]

IdxName(i) == Join(NatToChars(i))
MaxIdx == MaxArrLen + MaxArrLen + 2   \* no index of the model is beyond this
\* /^\d+$/.test(prop)
IsIndexName(prop) == \E i \in 0..MaxIdx : prop = IdxName(i)
IndexOf(prop) == CHOOSE i \in 0..MaxIdx : prop = IdxName(i)

\* Reflect.has(target, prop), own properties and the array methods
HasProp(o, prop) ==
    IF o.isArray
    THEN \/ prop = "length"
         \/ prop \in arrayMethods
         \/ IsIndexName(prop) /\ IndexOf(prop) < Len(o.elems)
                              /\ o.elems[IndexOf(prop) + 1] # Absent
    ELSE \E i \in 1..Len(o.props) : o.props[i].key = prop

\* Reflect.get(target, prop) on the raw object
ReflectGet(o, prop) ==
    CASE prop = "__isReactive" -> IF o.isReactive THEN True ELSE Undefined
      [] prop = "__isReactiveProxy" -> IF o.isReactiveProxy THEN True ELSE Undefined
      [] o.isArray /\ prop = "length" -> Num(Len(o.elems))
      [] o.isArray /\ prop \in arrayMethods -> MethodV(prop)
      [] prop = "constructor" -> MethodV(prop)
      [] HasProp(o, prop) ->
            IF o.isArray THEN o.elems[IndexOf(prop) + 1]
            ELSE o.props[CHOOSE i \in 1..Len(o.props) : o.props[i].key = prop].val
      [] OTHER -> Undefined

Holes(n) == List([i \in 1..n |-> Absent])

\* Reflect.set(target, prop, value) on the raw object
ReflectSet(o, prop, value) ==
    IF o.isArray
    THEN IF prop = "length"
         THEN [o EXCEPT !.elems = IF value.n <= Len(@) THEN SubSeq(@, 1, value.n)
                                  ELSE @ \o Holes(value.n - Len(@))]
         ELSE [o EXCEPT !.elems =
                  List([i \in 1..Max(Len(@), IndexOf(prop) + 1) |->
                           IF i = IndexOf(prop) + 1 THEN value
                           ELSE IF i <= Len(@) THEN @[i] ELSE Absent])]
    ELSE IF HasProp(o, prop)
         THEN [o EXCEPT !.props = List([i \in 1..Len(@) |->
                  IF @[i].key = prop THEN [key |-> prop, val |-> value] ELSE @[i]])]
         ELSE [o EXCEPT !.props = Append(@, [key |-> prop, val |-> value])]

\* Reflect.deleteProperty(target, prop) on the raw object
ReflectDelete(o, prop) ==
    IF o.isArray
    THEN IF IsIndexName(prop) /\ HasProp(o, prop)
         THEN [o EXCEPT !.elems[IndexOf(prop) + 1] = Absent] ELSE o
    ELSE [o EXCEPT !.props = SelectSeq(@, LAMBDA e : e.key # prop)]

\* value.__isReactive, read off a raw object or through its proxy
MarkedReactive(s, v) == s.objs[v.id].isReactive

RECURSIVE WrapElems(_, _, _)
\* rawTarget.forEach((item, index) => ... rawTarget[index] = reactive(item))
WrapElems(s, x, i) ==
    IF i > Len(s.objs[x].elems) \/ s.thrown THEN s
    ELSE IF s.objs[x].elems[i] # Absent /\ IsObj(s.objs[x].elems[i])
            /\ ~MarkedReactive(s, s.objs[x].elems[i])
         THEN Bind(Reactive_(s, s.objs[x].elems[i]), LAMBDA r :
                  WrapElems(IF r.s.thrown THEN r.s
                            ELSE [r.s EXCEPT !.objs[x].elems[i] = r.v], x, i + 1))
         ELSE WrapElems(s, x, i + 1)

\* a wrap that builds a new dependency node and proxy on every call
ReactiveFresh(s, target) ==
    IF ~IsObj(target) THEN Result(s, target)
    ELSE Result([s EXCEPT !.deps = Append(@, [NewDep EXCEPT !.proxy = TRUE]),
                          !.objs[target.id].dep = Len(s.deps) + 1,
                          !.objs[target.id].isReactive = TRUE,
                          !.objs[target.id].isReactiveProxy = TRUE],
                Proxy(target.id))

\* new _Dependency(); _depsMap.set(rawTarget, dep); Object.defineProperties(rawTarget, ...),
\* which throws a TypeError when rawTarget is not extensible
Register(s, x) ==
    IF s.objs[x].extensible
    THEN [s EXCEPT !.deps = Append(@, NewDep), !.objs[x].dep = Len(s.deps) + 1,
                   !.objs[x].isReactive = TRUE]
    ELSE Throw([s EXCEPT !.deps = Append(@, NewDep), !.objs[x].dep = Len(s.deps) + 1])

\* the filter of reactive: typeof target !== "object", null, or an instance
\* of Date, RegExp, Function, Map or Set
Filtered(target) ==
    \/ target.k \notin {"raw", "proxy", "instance"}
    \/ target.k = "instance" /\ target.class \in {"Date", "RegExp", "Map", "Set"}

\* window.reactive
Reactive(s, target) ==
    IF Filtered(target) THEN Result(s, target)
    ELSE IF s.objs[target.id].isReactiveProxy THEN Result(s, target)
    ELSE IF s.objs[target.id].isReactive
         THEN Result(s, IF s.deps[s.objs[target.id].dep].proxy THEN Proxy(target.id)
                        ELSE target)
    ELSE Bind(Register(s, target.id), LAMBDA s1 :
         Bind(IF s1.objs[target.id].isArray /\ ~s1.thrown
              THEN WrapElems(s1, target.id, 1) ELSE s1,
              LAMBDA s2 :
                  IF s2.thrown THEN Result(s2, Undefined) ELSE
                  Result([s2 EXCEPT !.objs[target.id].isReactiveProxy = TRUE,
                                    !.deps[s2.objs[target.id].dep].proxy = TRUE],
                         Proxy(target.id))))

(***************************************************************************)
(* The proxy traps of reactive().                                          *)
(***************************************************************************)
BuiltinProps == {"__proto__", "__isReactive", "__raw", "__isReactiveProxy"}

\* the key a property is subscribed and notified under
SubKey(o, prop) == IF o.isArray /\ IsIndexName(prop) THEN "index:" \o prop ELSE prop

\* get(targetObj, prop, receiver)
ProxyGet(s, x, prop) ==
    IF prop \in BuiltinProps
    THEN Result(s, IF prop = "__raw" THEN Raw(x) ELSE ReflectGet(s.objs[x], prop))
    ELSE Bind(IF Len(s.activeFns) > 0
              THEN DepSubscribe(s, s.objs[x].dep, Top(s), SubKey(s.objs[x], prop))
              ELSE s,
              LAMBDA s1 :
         Bind(ReflectGet(s1.objs[x], prop), LAMBDA value :
              IF IsObj(value) /\ ~MarkedReactive(s1, value)
              THEN Reactive_(s1, value)
              ELSE Result(s1, value)))

RECURSIVE NotifyRemoved(_, _, _, _)
\* for (let i = value; i < oldLength; i++) dep.notify(`index:${i}`)
NotifyRemoved(s, d, i, oldLength) ==
    IF i >= oldLength THEN s
    ELSE NotifyRemoved(DepNotify(s, d, "index:" \o IdxName(i)), d, i + 1, oldLength)

\* a set trap that compares nothing: every write is stored and notified
ProxySetAlways(s, x, prop, value) ==
    DepNotify([s EXCEPT !.objs[x] = ReflectSet(@, prop, value)], s.objs[x].dep,
              SubKey(s.objs[x], prop))

\* set(targetObj, prop, value, receiver)
ProxySet(s, x, prop, value) ==
    IF prop \in {"__isReactive", "__raw", "__isReactiveProxy"} THEN s
    ELSE IF StrictEq(ReflectGet(s.objs[x], prop), value)
            \/ (IsNaN(ReflectGet(s.objs[x], prop)) /\ IsNaN(value)) THEN s
    ELSE Bind(IF s.objs[x].isArray /\ prop = "length" /\ value.k = "num"
                 /\ value.n < Len(s.objs[x].elems)
              THEN NotifyRemoved(s, s.objs[x].dep, value.n, Len(s.objs[x].elems))
              ELSE s,
              LAMBDA s1 :
         Bind(IF IsObj(value) THEN Reactive_(s1, value) ELSE Result(s1, value),
              LAMBDA r :
         Bind([r.s EXCEPT !.objs[x] = ReflectSet(@, prop, r.v)], LAMBDA s2 :
              IF ~s2.deps[s2.objs[x].dep].notificationDisabled
              THEN DepNotify(s2, s2.objs[x].dep, SubKey(s2.objs[x], prop))
              ELSE s2)))

\* deleteProperty(targetObj, prop)
ProxyDelete(s, x, prop) ==
    IF prop \in {"__isReactive", "__raw", "__isReactiveProxy"} THEN s
    ELSE Bind([s EXCEPT !.objs[x] = ReflectDelete(@, prop)], LAMBDA s1 :
              IF /\ HasProp(s.objs[x], prop)
                 /\ ~(s.objs[x].isArray /\ prop = "length")
                 /\ ~s1.deps[s1.objs[x].dep].notificationDisabled
              THEN DepNotify(s1, s1.objs[x].dep, SubKey(s1.objs[x], prop))
              ELSE s1)

(***************************************************************************)
(* Array.prototype methods applied to the proxy: each is the sequence of   *)
(* Get / Set / HasProperty / Delete operations ECMAScript prescribes, the  *)
(* Get, Set and Delete going through the traps above.                      *)
(***************************************************************************)
RECURSIVE SetItems(_, _, _, _)
\* O[at] = items[0]; O[at + 1] = items[1]; ...
SetItems(s, x, at, items) ==
    IF items = <<>> THEN s
    ELSE SetItems(ProxySet_(s, x, IdxName(at), Head(items)), x, at + 1, Tail(items))

\* if (from in O) O[to] = O[from]; else delete O[to]
Move(s, x, from, to) ==
    IF HasProp(s.objs[x], IdxName(from))
    THEN Bind(ProxyGet_(s, x, IdxName(from)), LAMBDA g :
              ProxySet_(g.s, x, IdxName(to), g.v))
    ELSE ProxyDelete_(s, x, IdxName(to))

RECURSIVE MoveUpward(_, _, _, _, _)
\* for k = from .. last: move k to k - by   (shift, shrinking splice)
MoveUpward(s, x, k, last, by) ==
    IF k > last THEN s ELSE MoveUpward(Move(s, x, k, k - by), x, k + 1, last, by)

RECURSIVE MoveDownward(_, _, _, _, _)
\* for k = from down to last: move k to k + by   (unshift, growing splice)
MoveDownward(s, x, k, last, by) ==
    IF k < last THEN s ELSE MoveDownward(Move(s, x, k, k + by), x, k - 1, last, by)

RECURSIVE DeleteDownward(_, _, _, _)
DeleteDownward(s, x, k, last) ==
    IF k < last THEN s ELSE DeleteDownward(ProxyDelete_(s, x, IdxName(k)), x, k - 1, last)

RECURSIVE DeleteUpward(_, _, _, _)
DeleteUpward(s, x, k, last) ==
    IF k > last THEN s ELSE DeleteUpward(ProxyDelete_(s, x, IdxName(k)), x, k + 1, last)

\* Array.prototype.push
BuiltinPush(s, x, items) ==
    Bind(ProxyGet_(s, x, "length"), LAMBDA g :
         Result(ProxySet_(SetItems(g.s, x, g.v.n, items), x, "length",
                          Num(g.v.n + Len(items))),
                Num(g.v.n + Len(items))))

\* Array.prototype.pop
BuiltinPop(s, x) ==
    Bind(ProxyGet_(s, x, "length"), LAMBDA g :
         IF g.v.n = 0 THEN Result(ProxySet_(g.s, x, "length", Num(0)), Undefined)
         ELSE Bind(ProxyGet_(g.s, x, IdxName(g.v.n - 1)), LAMBDA e :
                   Result(ProxySet_(ProxyDelete_(e.s, x, IdxName(g.v.n - 1)),
                                    x, "length", Num(g.v.n - 1)),
                          e.v)))

\* Array.prototype.shift
BuiltinShift(s, x) ==
    Bind(ProxyGet_(s, x, "length"), LAMBDA g :
         IF g.v.n = 0 THEN Result(ProxySet_(g.s, x, "length", Num(0)), Undefined)
         ELSE Bind(ProxyGet_(g.s, x, "0"), LAMBDA first :
              Bind(MoveUpward(first.s, x, 1, g.v.n - 1, 1), LAMBDA s1 :
                   Result(ProxySet_(ProxyDelete_(s1, x, IdxName(g.v.n - 1)),
                                    x, "length", Num(g.v.n - 1)),
                          first.v))))

\* Array.prototype.unshift
BuiltinUnshift(s, x, items) ==
    Bind(ProxyGet_(s, x, "length"), LAMBDA g :
    Bind(IF Len(items) > 0
         THEN SetItems(MoveDownward(g.s, x, g.v.n - 1, 0, Len(items)), x, 0, items)
         ELSE g.s,
         LAMBDA s1 :
             Result(ProxySet_(s1, x, "length", Num(g.v.n + Len(items))),
                    Num(g.v.n + Len(items)))))

RECURSIVE CopyOut(_, _, _, _, _)
\* the removed elements, read one by one into the array splice returns
CopyOut(s, x, k, last, acc) ==
    IF k > last THEN Result(s, acc)
    ELSE IF HasProp(s.objs[x], IdxName(k))
         THEN Bind(ProxyGet_(s, x, IdxName(k)), LAMBDA g :
                   CopyOut(g.s, x, k + 1, last, Append(acc, g.v)))
         ELSE CopyOut(s, x, k + 1, last, Append(acc, Absent))

\* the element moves of splice, once the removed elements are copied out
SpliceMoves(s, x, len, actualStart, adc, items) ==
    Bind(IF Len(items) < adc
         THEN DeleteDownward(
                  MoveUpward(s, x, actualStart + adc, len - 1, adc - Len(items)),
                  x, len - 1, len - adc + Len(items))
         ELSE IF Len(items) > adc
         THEN MoveDownward(s, x, len - 1, actualStart + adc, Len(items) - adc)
         ELSE s,
         LAMBDA s1 :
             ProxySet_(SetItems(s1, x, actualStart, items), x, "length",
                       Num(len - adc + Len(items))))

\* Array.prototype.splice
BuiltinSplice(s, x, start, deleteCount, items) ==
    Bind(ProxyGet_(s, x, "length"), LAMBDA g :
    Bind(Min(Max(start, 0), g.v.n), LAMBDA actualStart :
    Bind(Min(Max(deleteCount, 0), g.v.n - actualStart), LAMBDA adc :
    Bind(CopyOut(ProxyGet_(g.s, x, "constructor").s, x, actualStart,
                 actualStart + adc - 1, <<>>),
         LAMBDA removed :
             Result(SpliceMoves(removed.s, x, g.v.n, actualStart, adc, items),
                    [k |-> "list", items |-> removed.v])))))

\* one exchange of Array.prototype.reverse
ReverseStep(s, x, lower, upper) ==
    Bind(IF HasProp(s.objs[x], IdxName(lower)) THEN ProxyGet_(s, x, IdxName(lower))
         ELSE Result(s, Absent),
         LAMBDA gl :
    Bind(IF HasProp(gl.s.objs[x], IdxName(upper)) THEN ProxyGet_(gl.s, x, IdxName(upper))
         ELSE Result(gl.s, Absent),
         LAMBDA gu :
             CASE gl.v # Absent /\ gu.v # Absent ->
                      ProxySet_(ProxySet_(gu.s, x, IdxName(lower), gu.v),
                                x, IdxName(upper), gl.v)
               [] gl.v = Absent /\ gu.v # Absent ->
                      ProxyDelete_(ProxySet_(gu.s, x, IdxName(lower), gu.v),
                                   x, IdxName(upper))
               [] gl.v # Absent /\ gu.v = Absent ->
                      ProxySet_(ProxyDelete_(gu.s, x, IdxName(lower)),
                                x, IdxName(upper), gl.v)
               [] OTHER -> gu.s))

RECURSIVE ReverseLoop(_, _, _, _)
ReverseLoop(s, x, lower, len) ==
    IF lower >= len \div 2 THEN s
    ELSE ReverseLoop(ReverseStep(s, x, lower, len - lower - 1), x, lower + 1, len)

\* Array.prototype.reverse
BuiltinReverse(s, x) ==
    Bind(ProxyGet_(s, x, "length"), LAMBDA g :
         Result(ReverseLoop(g.s, x, 0, g.v.n), Proxy(x)))

\* the characters of the model in code-unit order
CharOrder == <<" ", "-", ".", "0", "1", "2", "3", "4", "5", "6", "7", "8", "9", ":",
               "N", "[", "]", "a", "b", "c", "d", "e", "f", "i", "j", "l", "n", "o",
               "r", "s", "t", "u", "v", "x", "{", "}">>
CharCode(c) == CHOOSE i \in 1..Len(CharOrder) : CharOrder[i] = c

RECURSIVE StrLess(_, _)
\* a < b on strings
StrLess(a, b) ==
    IF b = <<>> THEN FALSE
    ELSE IF a = <<>> THEN TRUE
    ELSE IF Head(a) = Head(b) THEN StrLess(Tail(a), Tail(b))
    ELSE CharCode(Head(a)) < CharCode(Head(b))

\* SortCompare with no comparefn: undefined last, the rest by their strings
SortLess(a, b) ==
    IF a = Undefined THEN FALSE
    ELSE IF b = Undefined THEN TRUE
    ELSE StrLess(JsString(a), JsString(b))

RECURSIVE InsertSorted(_, _)
InsertSorted(sorted, v) ==
    IF sorted = <<>> THEN <<v>>
    ELSE IF SortLess(v, Head(sorted)) THEN <<v>> \o sorted
    ELSE <<Head(sorted)>> \o InsertSorted(Tail(sorted), v)

RECURSIVE SortList(_)
\* a stable sort
SortList(list) ==
    IF list = <<>> THEN <<>>
    ELSE InsertSorted(SortList(SubSeq(list, 1, Len(list) - 1)), list[Len(list)])

RECURSIVE Collect(_, _, _, _, _)
\* SortIndexedProperties: read every present element
Collect(s, x, k, len, acc) ==
    IF k >= len THEN Result(s, acc)
    ELSE IF HasProp(s.objs[x], IdxName(k))
         THEN Bind(ProxyGet_(s, x, IdxName(k)), LAMBDA g :
                   Collect(g.s, x, k + 1, len, Append(acc, g.v)))
         ELSE Collect(s, x, k + 1, len, acc)

\* Array.prototype.sort, with no comparefn or with one that throws: the
\* comparefn is called once two of the collected values are not undefined,
\* and nothing is written back when it throws
BuiltinSort(s, x, comparefn) ==
    Bind(ProxyGet_(s, x, "length"), LAMBDA g :
    Bind(Collect(g.s, x, 0, g.v.n, <<>>), LAMBDA c :
         IF comparefn = Thrower /\ Len(SelectSeq(c.v, LAMBDA v : v # Undefined)) >= 2
         THEN Result(Throw(c.s), Undefined)
         ELSE Result(DeleteUpward(SetItems(c.s, x, 0, SortList(c.v)), x, Len(c.v),
                                  g.v.n - 1),
                     Proxy(x))))

\* Array.prototype[method].apply(this, args)
Builtin(s, x, method, args) ==
    CASE method = "push" -> BuiltinPush(s, x, args.items)
      [] method = "pop" -> BuiltinPop(s, x)
      [] method = "shift" -> BuiltinShift(s, x)
      [] method = "unshift" -> BuiltinUnshift(s, x, args.items)
      [] method = "splice" -> BuiltinSplice(s, x, args.start, args.deleteCount, args.items)
      [] method = "sort" ->
             BuiltinSort(s, x, IF "comparefn" \in DOMAIN args THEN args.comparefn
                               ELSE Undefined)
      [] method = "reverse" -> BuiltinReverse(s, x)

RECURSIVE WrapNew(_, _)
\* newItems.forEach(item => typeof item === "object" && ... && reactive(item))
WrapNew(s, newItems) ==
    IF newItems = <<>> THEN s
    ELSE IF IsObj(Head(newItems)) /\ ~MarkedReactive(s, Head(newItems))
         THEN WrapNew(Reactive_(s, Head(newItems)).s, Tail(newItems))
         ELSE WrapNew(s, Tail(newItems))

\* what follows the builtin in arrayProxyProto[method]: the try block and
\* its catch
AfterBuiltin(s, d, method, args, isNotificationDisabled) ==
    Bind(IF method \in {"splice", "push", "unshift"} THEN WrapNew(s, args.items) ELSE s,
         LAMBDA s1 :
             IF s1.thrown
             THEN [Caught(s1) EXCEPT !.deps[d].notificationDisabled = isNotificationDisabled]
             ELSE IF ~isNotificationDisabled
             THEN DepNotify([s1 EXCEPT !.deps[d].notificationDisabled = FALSE],
                            d, "array:mutate")
             ELSE [s1 EXCEPT !.deps[d].notificationDisabled = isNotificationDisabled])

\* arrayProxyProto[method], called on the proxy: the builtin is applied before
\* the try block, so what it throws leaves the wrapper at once
ArrayMethod(s, x, method, args) ==
    Bind(Builtin([s EXCEPT !.deps[s.objs[x].dep].notificationDisabled = TRUE],
                 x, method, args),
         LAMBDA r :
             IF r.s.thrown THEN r
             ELSE Result(AfterBuiltin(r.s, s.objs[x].dep, method, args,
                                      s.deps[s.objs[x].dep].notificationDisabled),
                         r.v))

(***************************************************************************)
(* _ExpressionParser.  `new Function(...keys, "return <expr>;")` is the    *)
(* JavaScript engine; the model evaluates the expressions it is given with *)
(* the engine's rules for this grammar:                                    *)
(*     expr ::= [ path | target "=" path ]                                 *)
(*     path ::= primary { accessor }       primary ::= name | number       *)
(*     target ::= name accessor { accessor }                               *)
(*     accessor ::= "." name | "[" number "]"                              *)
(* Any other text is a SyntaxError, an unbound name a ReferenceError, a    *)
(* property read or written off undefined a TypeError.  Texts the engine   *)
(* accepts and the grammar does not (object literals, other operators, an  *)
(* assignment to a property of a cell object other than `value`) are never *)
(* given.                                                                  *)
(***************************************************************************)
WordChars == Letters \cup Digits

RECURSIVE RunLen(_, _)
\* the length of the longest prefix of cs made of characters of S
RunLen(cs, S) == IF cs # <<>> /\ Head(cs) \in S THEN 1 + RunLen(Tail(cs), S) ELSE 0

RECURSIVE Tokens(_)
Tokens(cs) ==
    IF cs = <<>> THEN <<>>
    ELSE CASE Head(cs) = " " -> Tokens(Tail(cs))
           [] Head(cs) \in Letters ->
                <<[t |-> "name", name |-> Join(Take(cs, RunLen(cs, WordChars)))]>>
                \o Tokens(Drop(cs, RunLen(cs, WordChars)))
           [] Head(cs) \in Digits ->
                IF RunLen(cs, Digits) < Len(cs) /\ cs[RunLen(cs, Digits) + 1] \in Letters
                THEN <<[t |-> "bad"]>>
                ELSE <<[t |-> "number", digits |-> Take(cs, RunLen(cs, Digits))]>>
                     \o Tokens(Drop(cs, RunLen(cs, Digits)))
           [] Head(cs) \in {".", "[", "]", "="} -> <<[t |-> Head(cs)]>> \o Tokens(Tail(cs))
           [] OTHER -> <<[t |-> "bad"]>>

RECURSIVE NumberOf(_)
NumberOf(ds) == IF ds = <<>> THEN 0
                ELSE 10 * NumberOf(Take(ds, Len(ds) - 1)) + DigitOf(ds[Len(ds)])

RECURSIVE Accessors(_)
\* whether the tokens after the primary are well formed
Accessors(ts) ==
    IF ts = <<>> THEN TRUE
    ELSE IF ts[1].t = "." THEN Len(ts) >= 2 /\ ts[2].t = "name" /\ Accessors(Drop(ts, 2))
    ELSE IF ts[1].t = "[" THEN /\ Len(ts) >= 3 /\ ts[2].t = "number" /\ ts[3].t = "]"
                               /\ Accessors(Drop(ts, 3))
    ELSE FALSE

\* a path; a number followed by "." is a numeric literal with nothing left
\* to name the property
IsPath(ts) ==
    /\ ts # <<>>
    /\ ts[1].t \in {"name", "number"}
    /\ Accessors(Tail(ts))
    /\ ~(ts[1].t = "number" /\ Len(ts) >= 2 /\ ts[2].t = ".")

\* the position of the "=" of an assignment, 0 when ts is none
AssignAt(ts) ==
    IF \E i \in 2..(Len(ts) - 1) :
           /\ ts[i].t = "=" /\ ts[1].t = "name" /\ i > 2
           /\ IsPath(SubSeq(ts, 1, i - 1)) /\ IsPath(SubSeq(ts, i + 1, Len(ts)))
    THEN CHOOSE i \in 2..(Len(ts) - 1) : ts[i].t = "="
    ELSE 0

\* whether `return <expr>;` compiles
WellFormed(ts) == ts = <<>> \/ IsPath(ts) \/ AssignAt(ts) > 0

\* an evaluation's result: ok = FALSE is a thrown error
Outcome(s, v, ok) == [s |-> s, v |-> v, ok |-> ok]

\* a property of the object window.ref returns
RefProp(s, r, prop) ==
    CASE prop = "value" -> Bind(RefGet(s, r), LAMBDA g : Outcome(g.s, g.v, TRUE))
      [] prop = "__isRef" -> Outcome(s, True, TRUE)
      [] OTHER -> Outcome(s, Undefined, TRUE)

\* value[prop]
Member(s, value, prop) ==
    CASE value.k = "proxy" -> Bind(ProxyGet_(s, value.id, prop), LAMBDA g :
                                   Outcome(g.s, g.v, TRUE))
      [] value.k = "raw" -> Outcome(s, ReflectGet(s.objs[value.id], prop), TRUE)
      [] value.k = "ref" -> RefProp(s, value.id, prop)
      [] value.k = "undefined" -> Outcome(s, Undefined, FALSE)
      [] OTHER -> Outcome(s, Undefined, TRUE)

RECURSIVE Walk(_, _, _)
\* the property reads of the expression, left to right
Walk(s, value, ts) ==
    IF ts = <<>> THEN Outcome(s, value, TRUE)
    ELSE Bind(Member(s, value, IF ts[1].t = "." THEN ts[2].name
                               ELSE IdxName(NumberOf(ts[2].digits))),
              LAMBDA m :
                  IF ~m.ok THEN m
                  ELSE Walk(m.s, m.v, Drop(ts, IF ts[1].t = "." THEN 2 ELSE 3)))

Bound(env, name) == \E i \in 1..Len(env) : env[i].key = name
Lookup(env, name) == env[CHOOSE i \in 1..Len(env) : env[i].key = name].val

\* the value of the primary: a literal, a parameter of the evaluator, a global
Primary(s, t, env) ==
    IF t.t = "number" THEN Outcome(s, Num(NumberOf(t.digits)), TRUE)
    ELSE IF Bound(env, t.name) THEN Outcome(s, Lookup(env, t.name), TRUE)
    ELSE IF Bound(s.bindings, t.name) THEN Outcome(s, Lookup(s.bindings, t.name), TRUE)
    ELSE Outcome(s, Undefined, FALSE)

\* a path evaluated
Path(s, ts, env) ==
    Bind(Primary(s, ts[1], env), LAMBDA p : IF ~p.ok THEN p ELSE Walk(s, p.v, Tail(ts)))

\* the tokens of the last accessor of a target, and the property it names
LastLen(ts) == IF ts[Len(ts)].t = "]" THEN 3 ELSE 2
LastProp(ts) == IF ts[Len(ts)].t = "]" THEN IdxName(NumberOf(ts[Len(ts) - 1].digits))
                ELSE ts[Len(ts)].name

\* base[prop] = value
PutValue(s, base, prop, value) ==
    CASE base.k = "ref" /\ prop = "value" -> Outcome(RefSet(s, base.id, value), value, TRUE)
      [] base.k = "proxy" -> Outcome(ProxySet_(s, base.id, prop, value), value, TRUE)
      [] base.k = "raw" ->
            Outcome([s EXCEPT !.objs[base.id] = ReflectSet(@, prop, value)], value, TRUE)
      [] base.k = "undefined" -> Outcome(s, Undefined, FALSE)
      [] OTHER -> Outcome(s, value, TRUE)

\* target = path: the base of the target, then the path, then the write
Assign(s, target, path, env) ==
    Bind(Path(s, SubSeq(target, 1, Len(target) - LastLen(target)), env), LAMBDA b :
         IF ~b.ok THEN b
         ELSE Bind(Path(b.s, path, env), LAMBDA v :
                   IF ~v.ok THEN v ELSE PutValue(v.s, b.v, LastProp(target), v.v)))

\* new Function(...keys, `return ${expr};`)(...values)
Evaluate(s, expr, env) ==
    Bind(Tokens(expr), LAMBDA ts :
         IF ~WellFormed(ts) THEN Outcome(s, Undefined, FALSE)
         ELSE IF ts = <<>> THEN Outcome(s, Undefined, TRUE)
         ELSE IF AssignAt(ts) > 0
              THEN Assign(s, SubSeq(ts, 1, AssignAt(ts) - 1),
                          SubSeq(ts, AssignAt(ts) + 1, Len(ts)), env)
              ELSE Path(s, ts, env))

\* Object.keys(scope)
ScopeKeys(s, scope) ==
    List([i \in 1..Len(s.objs[scope.id].props) |-> s.objs[scope.id].props[i].key])

RECURSIVE ScopeValues(_, _, _, _)
\* keys.map(k => scope[k]): through the get trap when the scope is a proxy
ScopeValues(s, scope, keys, acc) ==
    IF keys = <<>> THEN Result(s, acc)
    ELSE Bind(IF scope.k = "proxy" THEN ProxyGet_(s, scope.id, Head(keys))
              ELSE Result(s, ReflectGet(s.objs[scope.id], Head(keys))),
              LAMBDA g :
                  ScopeValues(g.s, scope, Tail(keys),
                              Append(acc, [key |-> Head(keys), val |-> g.v])))

\* _ExpressionParser._globals
globals == {"window", "document", "console", "alert"}

RECURSIVE PathLen(_)
\* the length of the longest prefix of cs matching (?:\.[\w$]+)*
PathLen(cs) ==
    IF Len(cs) >= 2 /\ cs[1] = "." /\ cs[2] \in WordChars
    THEN 1 + RunLen(Tail(cs), WordChars)
         + PathLen(Drop(cs, 1 + RunLen(Tail(cs), WordChars)))
    ELSE 0

RECURSIVE CollectDeps(_, _)
\* expr.match(_VARIABLE_REGEX).forEach(v => deps.add(v.split(".")[0]))
CollectDeps(cs, names) ==
    IF cs = <<>> THEN names
    ELSE IF Head(cs) \in Letters
         THEN CollectDeps(
                  Drop(cs, RunLen(cs, WordChars) + PathLen(Drop(cs, RunLen(cs, WordChars)))),
                  IF Join(Take(cs, RunLen(cs, WordChars))) \notin globals
                  THEN SetAdd(names, Join(Take(cs, RunLen(cs, WordChars))))
                  ELSE names)
         ELSE CollectDeps(Tail(cs), names)

OPEN == <<"{", "{">>
CLOSE == <<"}", "}">>

\* if (expr.startsWith("{{") && expr.endsWith("}}")) expr = expr.slice(2, -2).trim()
Strip(expr) ==
    IF StartsWith(expr, OPEN) /\ EndsWith(expr, CLOSE)
    THEN Trim(Slice(expr, 2, Len(expr) - 2)) ELSE expr

\* result?.__isRef ? result.value : result
Unwrap(s, result) ==
    IF result.k \in {"proxy", "raw", "ref"}
    THEN Bind(Member(s, result, "__isRef"), LAMBDA m :
              IF m.v = True THEN Member(m.s, result, "value")
              ELSE Outcome(m.s, result, TRUE))
    ELSE Outcome(s, result, TRUE)

\* what the catch block returns: the `expr` variable as it is at that point
ParseError(expr) == Strip(expr)

\* _ExpressionParser.parse, for a string expr
Parse(s, expr, scope, names) ==
    Bind(ScopeValues(s, scope, ScopeKeys(s, scope), <<>>), LAMBDA kv :
    Bind(Evaluate(kv.s, Strip(expr), kv.v), LAMBDA e :
    Bind(IF e.ok THEN Unwrap(e.s, e.v) ELSE e, LAMBDA u :
         [s |-> u.s,
          v |-> IF u.ok THEN u.v ELSE Str(ParseError(expr)),
          deps |-> CollectDeps(expr, names),
          threw |-> ~u.ok])))

\* the position of the first "}" of cs, 0 when there is none
FirstClose(cs) == IF \E j \in 1..Len(cs) : cs[j] = "}"
                  THEN CHOOSE j \in 1..Len(cs) : cs[j] = "}" /\ \A i \in 1..(j - 1) : cs[i] # "}"
                  ELSE 0

\* the length of the match of /\{\{([^}]+?)}}/ at the head of cs, 0 for none
MatchLen(cs) ==
    IF StartsWith(cs, OPEN) /\ FirstClose(cs) >= 4 /\ FirstClose(cs) < Len(cs)
       /\ cs[FirstClose(cs) + 1] = "}"
    THEN FirstClose(cs) + 1 ELSE 0

RECURSIVE HasInterpolation(_)
\* _INTERPOLATION_REGEX.test(text), from lastIndex 0
HasInterpolation(cs) == cs # <<>> /\ (MatchLen(cs) > 0 \/ HasInterpolation(Tail(cs)))

RECURSIVE MatchFrom(_, _)
\* the 0-based position of the first match at or after `from`, -1 for none
MatchFrom(cs, from) ==
    IF from >= Len(cs) THEN -1
    ELSE IF MatchLen(Drop(cs, from)) > 0 THEN from
    ELSE MatchFrom(cs, from + 1)

\* _INTERPOLATION_REGEX.test(text): the pattern has the g flag, so the search
\* starts at lastIndex and leaves it at the end of the match, or at 0 when
\* there is no match
Test(s, cs) ==
    Bind(MatchFrom(cs, s.lastIndex), LAMBDA at :
         IF at < 0 THEN Result([s EXCEPT !.lastIndex = 0], FALSE)
         ELSE Result([s EXCEPT !.lastIndex = at + MatchLen(Drop(cs, at))], TRUE))

RECURSIVE ParseTextFrom(_, _, _, _, _)
\* text.replace(_INTERPOLATION_REGEX, (_, expr) => this.parse(expr.trim(), scope, deps))
ParseTextFrom(s, cs, scope, names, out) ==
    IF cs = <<>> THEN [s |-> s, v |-> out, deps |-> names]
    ELSE IF MatchLen(cs) = 0
         THEN ParseTextFrom(s, Tail(cs), scope, names, Append(out, Head(cs)))
         ELSE Bind(Parse_(s, Trim(SubSeq(cs, 3, MatchLen(cs) - 2)), scope, names),
                   LAMBDA p :
                       IF NoString(p.v)
                       THEN [s |-> Throw(p.s), v |-> out, deps |-> p.deps]
                       ELSE ParseTextFrom(p.s, Drop(cs, MatchLen(cs)), scope, p.deps,
                                          out \o JsString(p.v)))

\* _ExpressionParser.parseText, for a string text: replace with a pattern that
\* has the g flag sets lastIndex to 0, finds every match, and then calls the
\* replacer for each
ParseText(s, text, scope, names) ==
    ParseTextFrom([s EXCEPT !.lastIndex = 0], text, scope, names, <<>>)

(***************************************************************************)
(* DOM nodes.  `content`/`hasContent` is the node's _nodeContentMap entry, *)
(* `updateFn` its _elUpdateFns entry (0: none), `elDeps` its _elDeps entry,*)
(* `cleanups` the "beforeunload" listeners _createUpdateFn and r-dom added *)
(* to it.                                                                  *)
(* The markup inside an element of the model is plain text: innerHTML is   *)
(* the text of its child text nodes.                                       *)
(***************************************************************************)
NewNode(type, text, attrs) ==
    [type |-> type, text |-> text, attrs |-> attrs, children |-> <<>>,
     hasContent |-> FALSE, content |-> <<>>, processed |-> FALSE,
     forProcessed |-> FALSE, arrProcessed |-> FALSE, updateFn |-> 0, elDeps |-> <<>>,
     forceUpdate |-> FALSE, domProcessed |-> FALSE, updateCleanupBound |-> FALSE,
     cleanups |-> <<>>]

TextNode(text) == NewNode("text", text, <<>>)
Element(attrs) == NewNode("element", <<>>, attrs)
Fragment == NewNode("fragment", <<>>, <<>>)

RECURSIVE TextOf(_, _)
TextOf(s, children) ==
    IF children = <<>> THEN <<>>
    ELSE s.nodes[Head(children)].text \o TextOf(s, Tail(children))

\* el.innerHTML
InnerHTML(s, el) == TextOf(s, s.nodes[el].children)

\* el.getAttribute(name) || fallback
AttrOr(node, name, fallback) ==
    IF \E i \in 1..Len(node.attrs) : node.attrs[i].name = name /\ node.attrs[i].value # <<>>
    THEN node.attrs[CHOOSE i \in 1..Len(node.attrs) : node.attrs[i].name = name].value
    ELSE fallback

\* node.parentNode, 0 for none
ParentOf(s, node) ==
    IF \E i \in 1..Len(s.nodes) : node \in Range(s.nodes[i].children)
    THEN CHOOSE i \in 1..Len(s.nodes) : node \in Range(s.nodes[i].children)
    ELSE 0

\* appRoot: the element the bootstrap processes and then observes
AppRoot == 1

RECURSIVE Observed(_, _)
\* whether a node is appRoot or inside it
Observed(s, node) == node = AppRoot \/ (node # 0 /\ Observed(s, ParentOf(s, node)))

\* a childList record for the observer, when the target is inside appRoot
Mutation(s, target, addedNodes) ==
    IF Observed(s, target)
    THEN Logged(s, [ev |-> "mutation", target |-> target, addedNodes |-> addedNodes])
    ELSE s

\* the node taken out of the children of whatever parent holds it
Detach(s, node) ==
    IF ParentOf(s, node) = 0 THEN s
    ELSE [Mutation(s, ParentOf(s, node), <<>>)
             EXCEPT !.nodes[ParentOf(s, node)].children = SelectSeq(@, LAMBDA c : c # node)]

\* parent.appendChild(node): a fragment hands over its children
AppendChild(s, parent, node) ==
    IF s.nodes[node].type = "fragment"
    THEN IF s.nodes[node].children = <<>> THEN s
         ELSE [Mutation(s, parent, s.nodes[node].children)
                  EXCEPT !.nodes[parent].children = @ \o s.nodes[node].children,
                         !.nodes[node].children = <<>>]
    ELSE [Mutation(Detach(s, node), parent, <<node>>)
             EXCEPT !.nodes[parent].children = Append(@, node)]

RECURSIVE AppendAll(_, _, _)
\* list.forEach(node => parent.appendChild(node))
AppendAll(s, parent, list) ==
    IF list = <<>> THEN s
    ELSE AppendAll(AppendChild(s, parent, Head(list)), parent, Tail(list))

\* el.textContent = ""
ClearChildren(s, el) ==
    IF s.nodes[el].children = <<>> THEN s
    ELSE [Mutation(s, el, <<>>) EXCEPT !.nodes[el].children = <<>>]

\* a node created and not yet placed
Create(s, node) == Result([s EXCEPT !.nodes = Append(@, node)], Len(s.nodes) + 1)

\* a closure created
Closure(s, fn) == Result([s EXCEPT !.fns = Append(@, fn)], Len(s.fns) + 1)

\* a call that pops only when fn returns: _activeFns.push(fn); fn(); _activeFns.pop()
RunActiveNoFinally(s, fn) ==
    Bind(RunFn_([s EXCEPT !.activeFns = Append(@, fn)], fn), LAMBDA s1 :
         IF s1.thrown THEN s1 ELSE [s1 EXCEPT !.activeFns = SubSeq(@, 1, Len(@) - 1)])

\* _activeFns.push(fn); try { fn() } finally { _activeFns.pop() }
RunActive(s, fn) ==
    [RunFn_([s EXCEPT !.activeFns = Append(@, fn)], fn)
        EXCEPT !.activeFns = SubSeq(@, 1, Len(@) - 1)]

RECURSIVE SubscribeAll(_, _, _, _)
\* names.forEach(v => _depsMap.get(scope)?.subscribe(update, v)): _depsMap is
\* keyed by the raw object, so a proxy has no entry in it
SubscribeAll(s, scope, f, names) ==
    IF names = <<>> \/ scope.k # "raw" \/ s.objs[scope.id].dep = 0 THEN s
    ELSE SubscribeAll(DepSubscribe(s, s.objs[scope.id].dep, f, Head(names)),
                      scope, f, Tail(names))

(***************************************************************************)
(* _processTextNode                                                        *)
(***************************************************************************)
\* the `update` closure of _processTextNode
TextUpdate(s, f) ==
    Bind(ParseText_(s, s.nodes[s.fns[f].node].content, s.fns[f].scope, <<>>), LAMBDA p :
         IF p.s.thrown THEN p.s ELSE [p.s EXCEPT !.nodes[s.fns[f].node].text = p.v])

\* if (!_nodeContentMap.has(node)) _nodeContentMap.set(node, node.textContent)
KeepContent(s, node) ==
    IF s.nodes[node].hasContent THEN s
    ELSE [s EXCEPT !.nodes[node].hasContent = TRUE,
                   !.nodes[node].content = s.nodes[node].text]

\* _processTextNode
ProcessTextNode(s, node, scope) ==
    Bind(Closure(KeepContent(s, node), [kind |-> "text", node |-> node, scope |-> scope]),
         LAMBDA update :
    Bind(RunActive(update.s, update.v), LAMBDA s1 :
         IF s1.thrown THEN s1
         ELSE Bind(ParseText_(s1, s1.nodes[node].content, scope, <<>>), LAMBDA p :
                   IF p.s.thrown THEN p.s
                   ELSE SubscribeAll(p.s, scope, update.v, p.deps))))

(***************************************************************************)
(* _registerDirective, _createUpdateFn and _processElement.  The           *)
(* directives of the model's pages are r-for and r-arr.                    *)
(***************************************************************************)
Directives == {"r-for", "r-arr"}

\* a function; the handlers of r-for and r-arr carry the directive's name
Handler(name) == [k |-> "function", name |-> name]

\* the table after the registrations of r-for and r-arr at load
Builtins == <<[name |-> "r-for", handler |-> Handler("r-for")],
              [name |-> "r-arr", handler |-> Handler("r-arr")]>>

\* _directives.has(name), _directives.get(name), _directives.set(name, handler)
HasDirective(table, name) == \E i \in 1..Len(table) : table[i].name = name
GetDirective(table, name) ==
    IF HasDirective(table, name)
    THEN table[CHOOSE i \in 1..Len(table) : table[i].name = name].handler
    ELSE Undefined
SetDirective(table, name, handler) ==
    IF HasDirective(table, name)
    THEN List([i \in 1..Len(table) |->
                  IF table[i].name = name THEN [name |-> name, handler |-> handler]
                  ELSE table[i]])
    ELSE Append(table, [name |-> name, handler |-> handler])

\* a registration that takes any handler
RegisterDirectiveAny(s, name, handler) ==
    [s EXCEPT !.directives = SetDirective(@, name, handler)]

\* _registerDirective
RegisterDirective(s, name, handler) ==
    IF handler.k # "function" THEN Throw(s)
    ELSE [s EXCEPT !.directives = SetDirective(@, name, handler)]

RECURSIVE Classify(_, _, _)
\* the attribute loop of _createUpdateFn, filling attrMap
Classify(s, attrs, attrMap) ==
    IF attrs = <<>> THEN Result(s, attrMap)
    ELSE IF HasDirective(s.directives, Head(attrs).name)
         THEN Classify(s, Tail(attrs),
                       [attrMap EXCEPT !.directives = Append(@, Head(attrs))])
         ELSE Bind(Test(s, Head(attrs).value), LAMBDA t :
                   Classify(t.s, Tail(attrs),
                            IF t.v
                            THEN [attrMap EXCEPT !.interpolations = Append(@, Head(attrs))]
                            ELSE attrMap))

\* if (!el["__updateCleanupBound"]) { el.addEventListener("beforeunload", cleanup); ... }
BindUpdateCleanup(s, el) ==
    IF s.nodes[el].updateCleanupBound THEN s
    ELSE [s EXCEPT !.nodes[el].updateCleanupBound = TRUE,
                   !.nodes[el].cleanups = Append(@, [kind |-> "update"])]

\* a builder that ignores __forceUpdate once a closure is cached
CreateUpdateFnCached(s, el, scope) ==
    IF s.nodes[el].updateFn # 0 THEN Result(s, s.nodes[el].updateFn)
    ELSE Bind(Classify(s, s.nodes[el].attrs, [directives |-> <<>>, interpolations |-> <<>>]),
              LAMBDA a :
         Bind(Closure(a.s, [kind |-> "element", el |-> el, scope |-> scope,
                            directives |-> a.v.directives,
                            interpolations |-> a.v.interpolations]),
              LAMBDA c : Result(BindUpdateCleanup([c.s EXCEPT !.nodes[el].updateFn = c.v], el),
                                c.v)))

\* _createUpdateFn: the cached closure, or a new one; __forceUpdate is read
\* and reset only when a closure is cached
CreateUpdateFn(s, el, scope) ==
    IF s.nodes[el].updateFn # 0 /\ ~s.nodes[el].forceUpdate
    THEN Result(s, s.nodes[el].updateFn)
    ELSE Bind(Classify(IF s.nodes[el].updateFn # 0
                       THEN [s EXCEPT !.nodes[el].forceUpdate = FALSE] ELSE s,
                       s.nodes[el].attrs, [directives |-> <<>>, interpolations |-> <<>>]),
              LAMBDA a :
         Bind(Closure(a.s, [kind |-> "element", el |-> el, scope |-> scope,
                            directives |-> a.v.directives,
                            interpolations |-> a.v.interpolations]),
              LAMBDA c : Result(BindUpdateCleanup([c.s EXCEPT !.nodes[el].updateFn = c.v], el),
                                c.v)))

RECURSIVE ProcessTextNodes(_, _, _)
\* the childNodes loop: text nodes the pattern's test finds an interpolation in
ProcessTextNodes(s, childNodes, scope) ==
    IF childNodes = <<>> \/ s.thrown THEN s
    ELSE IF s.nodes[Head(childNodes)].type = "text"
         THEN Bind(Test(s, s.nodes[Head(childNodes)].text), LAMBDA t :
                   ProcessTextNodes(IF t.v THEN ProcessTextNode_(t.s, Head(childNodes), scope)
                                    ELSE t.s,
                                    Tail(childNodes), scope))
         ELSE ProcessTextNodes(s, Tail(childNodes), scope)

RECURSIVE ProcessChildren(_, _, _)
\* the children loop: child elements
ProcessChildren(s, children, scope) ==
    IF children = <<>> \/ s.thrown THEN s
    ELSE IF s.nodes[Head(children)].type = "element"
         THEN ProcessChildren(ProcessElement_(s, Head(children), scope),
                              Tail(children), scope)
         ELSE ProcessChildren(s, Tail(children), scope)

\* _processElement: el["__processedcessed"] is a property nothing sets, so
\* the early return is taken for a missing el only
ProcessElement(s, el, scope) ==
    Bind(IF s.nodes[el].type = "element"
         THEN Bind(CreateUpdateFn([s EXCEPT !.nodes[el].processed = TRUE], el, scope),
                   LAMBDA u : RunActive(u.s, u.v))
         ELSE [s EXCEPT !.nodes[el].processed = TRUE],
         LAMBDA s1 :
    Bind(ProcessTextNodes(s1, s1.nodes[el].children, scope), LAMBDA s2 :
         IF s2.thrown THEN s2
         ELSE IF s2.nodes[el].type \in {"element", "fragment"}
         THEN ProcessChildren(s2, s2.nodes[el].children, scope)
         ELSE s2))

(***************************************************************************)
(* What r-for and r-arr share: the per-item scope, the container built     *)
(* from the item template, the node cache (a Map: a sequence of entries    *)
(* [key, nodes, itemScope] in insertion order).                            *)
(***************************************************************************)
HasKey(nodeCache, key) == \E i \in 1..Len(nodeCache) : nodeCache[i].key = key
CacheGet(nodeCache, key) ==
    nodeCache[CHOOSE i \in 1..Len(nodeCache) : nodeCache[i].key = key]

\* a cleanup that forgets nothing
CleanupNone(nodeCache, prevKeys, currKeys) == nodeCache

\* prevKeys.forEach(key => !currKeySet.has(key) && nodeCache.delete(key))
Cleanup(nodeCache, prevKeys, currKeys) ==
    SelectSeq(nodeCache,
              LAMBDA e : ~(e.key \in Range(prevKeys) /\ e.key \notin Range(currKeys)))

RECURSIVE PutAll(_, _)
\* the properties of an object literal, written left to right
PutAll(o, entries) ==
    IF entries = <<>> THEN o
    ELSE PutAll(ReflectSet(o, Head(entries).key, Head(entries).val), Tail(entries))

\* an item scope that is the scope of the directive itself, with the entries
\* written into it
ItemScopeShared(s, scope, entries) ==
    Result([s EXCEPT !.objs[scope.id] = PutAll(@, entries)], scope)

\* reactive({ ...scope, [key]: value, ... })
ItemScope(s, scope, entries) ==
    Bind(ScopeValues(s, scope, ScopeKeys(s, scope), <<>>), LAMBDA kv :
         Reactive_([kv.s EXCEPT !.objs = Append(@, PutAll(NewRecord(kv.v), entries))],
                   Raw(Len(kv.s.objs) + 1)))

\* tempContainer.innerHTML = itemTemplate
SetInnerHTML(s, el, html) ==
    IF html = <<>> THEN ClearChildren(s, el)
    ELSE [s EXCEPT !.nodes = Append(@, TextNode(html)),
                   !.nodes[el].children = <<Len(s.nodes) + 1>>]

RECURSIVE BaseAttrs(_, _, _, _, _, _)
\* baseAttrs[name] = _ExpressionParser.parseText(attr.value.trim(), scope, deps)
BaseAttrs(s, el, attrs, own, scope, acc) ==
    IF attrs = <<>> \/ s.thrown THEN Result(s, acc)
    ELSE IF Head(attrs).name \in own THEN BaseAttrs(s, el, Tail(attrs), own, scope, acc)
    ELSE Bind(ParseText_(s, Trim(Head(attrs).value), scope, s.nodes[el].elDeps), LAMBDA p :
              BaseAttrs([p.s EXCEPT !.nodes[el].elDeps = p.deps], el, Tail(attrs), own,
                        scope, Append(acc, [name |-> Head(attrs).name, value |-> p.v])))

\* the attributes tempContainer is given: className, style.cssText, baseAttrs
ContainerAttrs(node, baseAttrs) ==
    (IF Trim(AttrOr(node, "class", <<>>)) # <<>>
     THEN <<[name |-> "class", value |-> Trim(AttrOr(node, "class", <<>>))]>> ELSE <<>>)
    \o (IF Trim(AttrOr(node, "style", <<>>)) # <<>>
        THEN <<[name |-> "style", value |-> Trim(AttrOr(node, "style", <<>>))]>> ELSE <<>>)
    \o baseAttrs

RECURSIVE Unprocess(_, _)
\* list.forEach(child => child.__processed = false)
Unprocess(s, list) ==
    IF list = <<>> THEN s
    ELSE Unprocess([s EXCEPT !.nodes[Head(list)].processed = FALSE], Tail(list))

\* the new-item branch up to the cache entry: container, scope, bindings
NewItem(s, d, entries) ==
    Bind(Create(s, Element(s.dirs[d].baseAttrs)), LAMBDA tempContainer :
    Bind(ItemScope(SetInnerHTML(tempContainer.s, tempContainer.v, s.dirs[d].itemTemplate),
                   s.dirs[d].scope, entries),
         LAMBDA itemScope :
    Bind(ProcessElement_(itemScope.s, tempContainer.v, itemScope.v), LAMBDA s1 :
         Result(s1, [nodes |-> s1.nodes[tempContainer.v].children,
                     itemScope |-> itemScope.v]))))

\* nodeCache.set(key, entry); the nodes go to a new fragment, that to `fragment`
KeepItem(s, d, key, entry, fragment) ==
    Bind(Create([s EXCEPT !.dirs[d].nodeCache =
                     Append(@, [key |-> key, nodes |-> entry.nodes,
                                itemScope |-> entry.itemScope])],
                Fragment),
         LAMBDA newFragment :
             AppendChild(AppendAll(newFragment.s, newFragment.v, entry.nodes),
                         fragment, newFragment.v))

\* what ends update(): cleanup, prevKeys = currKeySet, el.textContent = "",
\* el.appendChild(fragment)
Render(s, d, currKeys, fragment) ==
    AppendChild(
        ClearChildren([s EXCEPT !.dirs[d].nodeCache =
                                    Cleanup(@, s.dirs[d].prevKeys, currKeys),
                                !.dirs[d].prevKeys = currKeys],
                      s.dirs[d].el),
        s.dirs[d].el, fragment)

\* the directive instance and its update closure, run once on top of
\* _activeFns (catch (initErr) { console.error; el.textContent = "" }), then
\* subscribed to the element's dependencies
Install2(s, dir) ==
    Bind(Closure([s EXCEPT !.dirs = Append(@, dir)],
                 [kind |-> dir.kind, dir |-> Len(s.dirs) + 1]),
         LAMBDA update :
    Bind(RunActive(update.s, update.v), LAMBDA s1 :
    Bind(IF s1.thrown
         THEN ClearChildren(Logged(Caught(s1), [ev |-> "error", fn |-> update.v]), dir.el)
         ELSE s1,
         LAMBDA s2 : SubscribeAll(s2, dir.scope, update.v, s2.nodes[dir.el].elDeps))))

(***************************************************************************)
(* r-for                                                                   *)
(***************************************************************************)
\* parseInt(text, 10) || 0
ParseIntOr0(cs) ==
    IF TrimLeft(cs) # <<>> /\ Head(TrimLeft(cs)) = "-"
    THEN 0 - NumberOf(Take(Tail(TrimLeft(cs)), RunLen(Tail(TrimLeft(cs)), Digits)))
    ELSE NumberOf(Take(TrimLeft(cs), RunLen(TrimLeft(cs), Digits)))

\* Math.max(0, parseInt(parsedCount, 10) || 0)
ForCount(parsedCount) == Max(0, ParseIntOr0(JsString(parsedCount)))

RECURSIVE MoveNodes(_, _, _)
\* nodes.forEach(node => { node.__processed = false; ...; reuseFragment.appendChild(node) })
MoveNodes(s, reuseFragment, list) ==
    IF list = <<>> THEN s
    ELSE MoveNodes(
             AppendChild(Unprocess(s, <<Head(list)>> \o s.nodes[Head(list)].children),
                         reuseFragment, Head(list)),
             reuseFragment, Tail(list))

\* the reuse branch of r-for: the cached nodes themselves go back in
ForReuse(s, d, key, fragment) ==
    Bind(CacheGet(s.dirs[d].nodeCache, key), LAMBDA entry :
    Bind(Create(ProxySet_(s, entry.itemScope.id, s.dirs[d].indexKey, Num(key)), Fragment),
         LAMBDA reuseFragment :
    Bind(ProcessElement_(MoveNodes(reuseFragment.s, reuseFragment.v, entry.nodes),
                         reuseFragment.v, entry.itemScope),
         LAMBDA s1 : IF s1.thrown THEN s1
                     ELSE AppendChild(s1, fragment, reuseFragment.v))))

\* the new-item branch of r-for
ForCreate(s, d, key, fragment) ==
    Bind(NewItem(s, d, <<[key |-> s.dirs[d].indexKey, val |-> Num(key)]>>), LAMBDA item :
         IF item.s.thrown THEN item.s ELSE KeepItem(item.s, d, key, item.v, fragment))

RECURSIVE ForItems(_, _, _, _, _)
\* currKeys.forEach(key => ...)
ForItems(s, d, key, count, fragment) ==
    IF key > count \/ s.thrown THEN s
    ELSE ForItems(IF HasKey(s.dirs[d].nodeCache, key) THEN ForReuse(s, d, key, fragment)
                  ELSE ForCreate(s, d, key, fragment),
                  d, key + 1, count, fragment)

\* the `update` closure of r-for
ForUpdate(s, d) ==
    Bind(Parse_(s, Trim(s.dirs[d].expr), s.dirs[d].scope, s.nodes[s.dirs[d].el].elDeps),
         LAMBDA p :
    Bind(Create([p.s EXCEPT !.nodes[s.dirs[d].el].elDeps = p.deps], Fragment),
         LAMBDA fragment :
    Bind(ForItems(fragment.s, d, 1, ForCount(p.v), fragment.v), LAMBDA s1 :
         IF s1.thrown THEN s1
         ELSE Render(s1, d, List([i \in 1..ForCount(p.v) |-> i]), fragment.v))))

ForOwnAttrs == {"r-for", "index", "class", "style"}

\* the r-for directive handler
ForHandler(s, el, expr, scope) ==
    IF Trim(expr) = <<>> \/ s.nodes[el].forProcessed THEN s
    ELSE IF Trim(InnerHTML(s, el)) = <<>> THEN [s EXCEPT !.nodes[el].forProcessed = TRUE]
    ELSE Bind(BaseAttrs([s EXCEPT !.nodes[el].forProcessed = TRUE], el, s.nodes[el].attrs,
                        ForOwnAttrs, scope, <<>>),
              LAMBDA b :
                  IF b.s.thrown THEN b.s ELSE
                  Install2(b.s, [kind |-> "for", el |-> el, expr |-> expr, scope |-> scope,
                                 indexKey |-> Join(AttrOr(s.nodes[el], "index",
                                                          <<"i", "n", "d", "e", "x">>)),
                                 itemTemplate |-> Trim(InnerHTML(s, el)),
                                 baseAttrs |-> ContainerAttrs(s.nodes[el], b.v),
                                 nodeCache |-> <<>>, prevKeys |-> <<>>]))


(***************************************************************************)
(* r-dom.  The state of one call of the handler (componentInstance,        *)
(* retryTimer, retryCount, pendingUpdate) is an entry of `dirs`; its       *)
(* `listening` says that its cleanup is a "beforeunload" listener of el.   *)
(***************************************************************************)
MAX_RETRY_COUNT == 3

\* attr.name.startsWith("$"), for the attribute names of the model's pages
IsProp(name) == name \in {"$x", "$y"}

\* window[name]
WindowGet(s, name) ==
    IF Bound(s.components.window, name) THEN Lookup(s.components.window, name)
    ELSE Undefined

\* a || b
OrElse(a, b) ==
    IF \/ a.k \in {"undefined", "null", "nan"}
       \/ a = Num(0) \/ a = Str(<<>>) \/ a = [k |-> "bool", b |-> FALSE]
    THEN b ELSE a

RECURSIVE GetComponentProps(_, _, _, _)
\* getComponentProps: props[propKey] = _ExpressionParser.parse(attr.value, scope, deps)
GetComponentProps(s, d, attrs, props) ==
    IF attrs = <<>> THEN Result(s, props)
    ELSE IF ~IsProp(Head(attrs).name) THEN GetComponentProps(s, d, Tail(attrs), props)
    ELSE Bind(Parse_(s, Head(attrs).value, s.dirs[d].scope, s.nodes[s.dirs[d].el].elDeps),
              LAMBDA p :
                  GetComponentProps(
                      [Caught(p.s) EXCEPT !.nodes[s.dirs[d].el].elDeps = p.deps], d,
                      Tail(attrs),
                      Append(props, [name |-> Head(attrs).name,
                                     value |-> IF p.s.thrown THEN Str(Head(attrs).value)
                                               ELSE p.v])))

\* scope[compNameTrimmed] || window[compNameTrimmed] || window.__rootScope[...]
FindComponentFactory(s, d) ==
    Bind(Member(s, s.dirs[d].scope, s.dirs[d].compName), LAMBDA a :
         IF OrElse(a.v, WindowGet(a.s, s.dirs[d].compName)) # Undefined
         THEN Result(a.s, OrElse(a.v, WindowGet(a.s, s.dirs[d].compName)))
         ELSE Bind(Member(a.s, Proxy(1), s.dirs[d].compName), LAMBDA b :
                   Result(b.s, b.v)))

\* if (componentInstance) { componentInstance.unmount(); componentInstance = null }
Unmount(s, d) ==
    IF ~s.dirs[d].componentInstance THEN s
    ELSE [Logged(s, [ev |-> "unmount", el |-> s.dirs[d].el])
             EXCEPT !.dirs[d].componentInstance = FALSE]

\* renderComponent: a factory that throws leaves componentInstance null
RenderComponent(s, d, ComponentFactory) ==
    Bind(GetComponentProps(Unmount(s, d), d, s.nodes[s.dirs[d].el].attrs, <<>>), LAMBDA p :
         IF ComponentFactory = Thrower THEN p.s
         ELSE [Logged(p.s, [ev |-> "mount", el |-> s.dirs[d].el, props |-> p.v])
                  EXCEPT !.dirs[d].componentInstance = TRUE,
                         !.components.instances = SetAdd(@, s.dirs[d].el)])

\* mountComponent, whose result is whether a factory was found
MountComponent(s, d) ==
    Bind(FindComponentFactory(s, d), LAMBDA f :
         IF f.v.k = "function"
         THEN Result(RenderComponent([f.s EXCEPT !.dirs[d].retryTimer = FALSE], d, f.v), TRUE)
         ELSE Result(f.s, FALSE))

\* startRetry: if (retryTimer) return; retryTimer = setInterval(..., RETRY_INTERVAL)
StartRetry(s, d) == IF s.dirs[d].retryTimer THEN s ELSE [s EXCEPT !.dirs[d].retryTimer = TRUE]

\* handleDependencyChange: pendingUpdate = setTimeout(..., 16)
HandleDependencyChange(s, d) == [s EXCEPT !.dirs[d].pendingUpdate = TRUE]

\* an interval callback that never gives up
RetryTickForever(s, d) ==
    MountComponent([s EXCEPT !.dirs[d].retryCount = @ + 1], d).s

\* the interval callback of startRetry
RetryTick(s, d) ==
    Bind(MountComponent([s EXCEPT !.dirs[d].retryCount = @ + 1], d), LAMBDA m :
         IF m.v THEN m.s
         ELSE IF m.s.dirs[d].retryCount >= MAX_RETRY_COUNT
         THEN [m.s EXCEPT !.dirs[d].retryTimer = FALSE]
         ELSE m.s)

RECURSIVE CollectedDeps(_, _)
\* the variables of the props that are strings holding "{{"
CollectedDeps(props, acc) ==
    IF props = <<>> THEN acc
    ELSE CollectedDeps(Tail(props),
                       IF Head(props).value.k = "str"
                          /\ \E i \in 1..(Len(Head(props).value.s) - 1) :
                                 SubSeq(Head(props).value.s, i, i + 1) = OPEN
                       THEN CollectDeps(Head(props).value.s, acc)
                       ELSE acc)

\* the cleanup of r-dom
DomCleanup(s, d) ==
    [Unmount([s EXCEPT !.dirs[d].retryTimer = FALSE, !.dirs[d].pendingUpdate = FALSE], d)
        EXCEPT !.components.instances = SelectSeq(@, LAMBDA e : e # s.dirs[d].el),
               !.nodes[s.dirs[d].el].domProcessed = FALSE,
               !.nodes[s.dirs[d].el].cleanups =
                   SelectSeq(@, LAMBDA c : c # [kind |-> "dom", dir |-> d]),
               !.dirs[d].listening = FALSE]

\* the r-dom directive handler.  handleDependencyChange is the closure of
\* kind "dom"; allDeps.forEach subscribes it through _depsMap.get(scope)
DomHandler(s, el, compName, scope) ==
    IF s.nodes[el].domProcessed THEN s
    ELSE IF \A i \in 1..Len(s.components.templates) :
                s.components.templates[i] # Join(Trim(compName))
    THEN Logged([s EXCEPT !.nodes[el].domProcessed = TRUE],
                [ev |-> "undefined", el |-> el])
    ELSE Bind(Len(s.dirs) + 1, LAMBDA d :
         Bind(MountComponent(
                  [s EXCEPT !.nodes[el].domProcessed = TRUE,
                            !.dirs = Append(@, [kind |-> "dom", el |-> el, scope |-> scope,
                                                compName |-> Join(Trim(compName)),
                                                componentInstance |-> FALSE,
                                                retryTimer |-> FALSE, retryCount |-> 0,
                                                pendingUpdate |-> FALSE,
                                                listening |-> FALSE])], d),
              LAMBDA m :
         Bind(GetComponentProps(IF m.v THEN m.s ELSE StartRetry(m.s, d), d,
                                s.nodes[el].attrs, <<>>),
              LAMBDA props :
         Bind(Closure(props.s, [kind |-> "dom", dir |-> d]), LAMBDA handleDependencyChange :
         Bind(SubscribeAll(handleDependencyChange.s, scope, handleDependencyChange.v,
                           CollectedDeps(props.v, handleDependencyChange.s.nodes[el].elDeps)),
              LAMBDA s1 :
                  [s1 EXCEPT !.nodes[el].cleanups = Append(@, [kind |-> "dom", dir |-> d]),
                             !.dirs[d].listening = TRUE])))))

RECURSIVE Beforeunload(_, _, _)
\* el.dispatchEvent(new Event("beforeunload")): the listeners of el, in the
\* order they were added
Beforeunload(s, el, listeners) ==
    IF listeners = <<>> THEN s
    ELSE Beforeunload(
             IF Head(listeners).kind = "update"
             THEN [s EXCEPT !.nodes[el].updateFn = 0, !.nodes[el].elDeps = <<>>,
                            !.nodes[el].cleanups =
                                SelectSeq(@, LAMBDA c : c # [kind |-> "update"])]
             ELSE DomCleanup(s, Head(listeners).dir),
             el, Tail(listeners))
(***************************************************************************)
(* r-arr.  The items of the model's lists are numbers and flat records.    *)
(***************************************************************************)
\* a key made of the position alone
GetIndexKey(s, keyProp, item, index) == Result(s, IdxName(index))

RECURSIVE JsonProps(_)
\* the members of JSON.stringify(item), a property name being one piece
JsonProps(kv) ==
    IF kv = <<>> THEN <<>>
    ELSE <<"\"", Head(kv).key, "\"", ":">> \o JsString(Head(kv).val)
         \o (IF Len(kv) > 1 THEN <<",">> ELSE <<>>) \o JsonProps(Tail(kv))

\* typeof item === "object" ? JSON.stringify(item).slice(0, 50) : String(item)
DataHash(s, item) ==
    IF IsObj(item)
    THEN Bind(ScopeValues(s, item, ScopeKeys(s, item), <<>>), LAMBDA kv :
              Result(kv.s, Slice(<<"{">> \o JsonProps(kv.v) \o <<"}">>, 0, 50)))
    ELSE Result(s, JsString(item))

\* getUniqueKey(item, index): item[keyProp] is read twice
GetUniqueKey(s, keyProp, item, index) ==
    Bind(IF IsObj(item) THEN Member(s, item, keyProp) ELSE Outcome(s, Undefined, TRUE),
         LAMBDA m :
             IF IsObj(item) /\ m.v # Undefined
             THEN Bind(Member(m.s, item, keyProp), LAMBDA again :
                       Result(again.s, Join(JsString(again.v))))
             ELSE Bind(DataHash(m.s, item), LAMBDA dataHash :
                       Result(dataHash.s,
                              Join(NatToChars(index) \o <<"-">> \o dataHash.v))))

RECURSIVE MapKeys(_, _, _, _, _, _)
\* the callback loop of Array.prototype.map: HasProperty, Get, callback; the
\* result pairs each position that holds an item with its key
MapKeys(s, keyProp, arr, k, len, acc) ==
    IF k >= len THEN Result(s, acc)
    ELSE IF ~HasProp(s.objs[arr.id], IdxName(k))
         THEN MapKeys(s, keyProp, arr, k + 1, len, acc)
    ELSE Bind(Member(s, arr, IdxName(k)), LAMBDA item :
         Bind(GetUniqueKey(item.s, keyProp, item.v, k), LAMBDA key :
              MapKeys(key.s, keyProp, arr, k + 1, len,
                      Append(acc, [index |-> k, key |-> key.v]))))

\* arr.map((item, i) => getUniqueKey(item, i)): the reads of "map", "length"
\* and "constructor" come first
CurrKeys(s, keyProp, arr) ==
    Bind(Member(s, arr, "map"), LAMBDA m1 :
    Bind(Member(m1.s, arr, "length"), LAMBDA m2 :
    Bind(Member(m2.s, arr, "constructor"), LAMBDA m3 :
         MapKeys(m3.s, keyProp, arr, 0, m2.v.n, <<>>))))

RECURSIVE KeySet(_, _)
\* new Set(currKeys)
KeySet(pairs, acc) ==
    IF pairs = <<>> THEN acc ELSE KeySet(Tail(pairs), SetAdd(acc, Head(pairs).key))

RECURSIVE CloneNode(_, _)
RECURSIVE CloneInto(_, _, _)
\* node.cloneNode(true): expando properties and WeakMap entries stay behind
CloneNode(s, node) ==
    Bind(Create(s, NewNode(s.nodes[node].type, s.nodes[node].text, s.nodes[node].attrs)),
         LAMBDA c : Result(CloneInto(c.s, c.v, s.nodes[node].children), c.v))

CloneInto(s, parent, list) ==
    IF list = <<>> THEN s
    ELSE Bind(CloneNode(s, Head(list)), LAMBDA c :
              CloneInto([c.s EXCEPT !.nodes[parent].children = Append(@, c.v)],
                        parent, Tail(list)))

RECURSIVE CloneNodes(_, _, _)
\* nodes.forEach(node => { const cloned = node.cloneNode(true); ...;
\*                         reuseFragment.appendChild(cloned) })
CloneNodes(s, reuseFragment, list) ==
    IF list = <<>> THEN s
    ELSE Bind(CloneNode(s, Head(list)), LAMBDA cloned :
              CloneNodes(
                  AppendChild(Unprocess(cloned.s,
                                        <<cloned.v>> \o cloned.s.nodes[cloned.v].children),
                              reuseFragment, cloned.v),
                  reuseFragment, Tail(list)))

\* the reuse branch of r-arr: the scope is rebound, clones of the cached nodes
\* go in
ArrReuse(s, d, key, itemData, index, fragment) ==
    Bind(CacheGet(s.dirs[d].nodeCache, key), LAMBDA cached :
    Bind(ProxySet_(s, cached.itemScope.id, s.dirs[d].itemKey, itemData), LAMBDA s1 :
    Bind(Create(ProxySet_(s1, cached.itemScope.id, s.dirs[d].indexKey, Num(index)),
                Fragment),
         LAMBDA reuseFragment :
    Bind(ProcessElement_(CloneNodes(reuseFragment.s, reuseFragment.v, cached.nodes),
                         reuseFragment.v, cached.itemScope),
         LAMBDA s2 : IF s2.thrown THEN s2
                     ELSE AppendChild(s2, fragment, reuseFragment.v)))))

\* the new-item branch of r-arr
ArrCreate(s, d, key, itemData, index, fragment) ==
    Bind(NewItem(s, d, <<[key |-> s.dirs[d].itemKey, val |-> itemData],
                         [key |-> s.dirs[d].indexKey, val |-> Num(index)]>>),
         LAMBDA item : IF item.s.thrown THEN item.s
                       ELSE KeepItem(item.s, d, key, item.v, fragment))

RECURSIVE ArrItems(_, _, _, _, _)
\* currKeys.forEach((currKey, index) => ...)
ArrItems(s, d, arr, pairs, fragment) ==
    IF pairs = <<>> \/ s.thrown THEN s
    ELSE Bind(Member(s, arr, IdxName(Head(pairs).index)), LAMBDA itemData :
              ArrItems(IF HasKey(itemData.s.dirs[d].nodeCache, Head(pairs).key)
                       THEN ArrReuse(itemData.s, d, Head(pairs).key, itemData.v,
                                     Head(pairs).index, fragment)
                       ELSE ArrCreate(itemData.s, d, Head(pairs).key, itemData.v,
                                      Head(pairs).index, fragment),
                       d, arr, Tail(pairs), fragment))

\* Array.isArray(parsed)
IsArray(s, v) == IsObj(v) /\ s.objs[v.id].isArray

\* the `update` closure of r-arr
ArrUpdate(s, d) ==
    Bind(Parse_(s, Trim(s.dirs[d].expr), s.dirs[d].scope, s.nodes[s.dirs[d].el].elDeps),
         LAMBDA p :
    Bind(IF IsArray(p.s, p.v)
         THEN CurrKeys([p.s EXCEPT !.nodes[s.dirs[d].el].elDeps = p.deps],
                      s.dirs[d].keyProp, p.v)
         ELSE Result([p.s EXCEPT !.nodes[s.dirs[d].el].elDeps = p.deps], <<>>),
         LAMBDA currKeys :
    Bind(Create(currKeys.s, Fragment), LAMBDA fragment :
    Bind(ArrItems(fragment.s, d, p.v, currKeys.v, fragment.v), LAMBDA s1 :
         IF s1.thrown THEN s1
         ELSE Render(s1, d, KeySet(currKeys.v, <<>>), fragment.v)))))

ArrOwnAttrs == {"r-arr", "index", "value", "key", "class", "style"}

\* the r-arr directive handler
ArrHandler(s, el, expr, scope) ==
    IF Trim(expr) = <<>> \/ s.nodes[el].arrProcessed THEN s
    ELSE IF Trim(InnerHTML(s, el)) = <<>> THEN [s EXCEPT !.nodes[el].arrProcessed = TRUE]
    ELSE Bind(BaseAttrs([s EXCEPT !.nodes[el].arrProcessed = TRUE], el, s.nodes[el].attrs,
                        ArrOwnAttrs, scope, <<>>),
              LAMBDA b :
                  IF b.s.thrown THEN b.s ELSE
                  Install2(b.s, [kind |-> "arr", el |-> el, expr |-> expr, scope |-> scope,
                                 indexKey |-> Join(AttrOr(s.nodes[el], "index",
                                                          <<"i", "n", "d", "e", "x">>)),
                                 itemKey |-> Join(AttrOr(s.nodes[el], "value",
                                                         <<"v", "a", "l", "u", "e">>)),
                                 keyProp |-> Join(AttrOr(s.nodes[el], "key", <<"i", "d">>)),
                                 itemTemplate |-> Trim(InnerHTML(s, el)),
                                 baseAttrs |-> ContainerAttrs(s.nodes[el], b.v),
                                 nodeCache |-> <<>>, prevKeys |-> <<>>]))

(***************************************************************************)
(* The closure _createUpdateFn returns, and the execution of a closure.    *)
(***************************************************************************)
\* directiveHandler(el, dirValue, scope, deps), for the handler the table
\* holds under the name; a handler other than those of r-for, r-arr and r-dom
\* is a function that does nothing, or the function Thrower
Directive(s, name, el, value, scope) ==
    CASE GetDirective(s.directives, name) = Handler("r-for") ->
             ForHandler(s, el, value, scope)
      [] GetDirective(s.directives, name) = Handler("r-arr") ->
             ArrHandler(s, el, value, scope)
      [] GetDirective(s.directives, name) = Handler("r-dom") ->
             DomHandler(s, el, value, scope)
      [] GetDirective(s.directives, name) = Thrower -> Throw(s)
      [] OTHER -> s

RECURSIVE RunDirectivesUncaught(_, _, _, _)
\* a directive loop without the try block
RunDirectivesUncaught(s, el, list, scope) ==
    IF list = <<>> \/ s.thrown THEN s
    ELSE RunDirectivesUncaught(
             Directive(Logged(s, [ev |-> "directive", el |-> el, name |-> Head(list).name]),
                       Head(list).name, el, Head(list).value, scope),
             el, Tail(list), scope)

RECURSIVE RunDirectives(_, _, _, _)
\* try { directiveHandler(el, dirValue, scope, deps) } catch (e) { console.error }
RunDirectives(s, el, list, scope) ==
    IF list = <<>> THEN s
    ELSE RunDirectives(
             Caught(Directive(Logged(s, [ev |-> "directive", el |-> el,
                                         name |-> Head(list).name]),
                              Head(list).name, el, Head(list).value, scope)),
             el, Tail(list), scope)

\* el.setAttribute(name, value)
SetAttribute(attrs, name, value) ==
    IF \E i \in 1..Len(attrs) : attrs[i].name = name
    THEN List([i \in 1..Len(attrs) |->
                  IF attrs[i].name = name THEN [name |-> name, value |-> value]
                  ELSE attrs[i]])
    ELSE Append(attrs, [name |-> name, value |-> value])

RECURSIVE Interpolations(_, _, _, _)
\* the attributes holding an interpolation, parsed and written back
Interpolations(s, el, list, scope) ==
    IF list = <<>> \/ s.thrown THEN s
    ELSE Bind(ParseText_(s, Head(list).value, scope, s.nodes[el].elDeps), LAMBDA p :
              IF p.s.thrown THEN [p.s EXCEPT !.nodes[el].elDeps = p.deps]
              ELSE Interpolations([p.s EXCEPT !.nodes[el].elDeps = p.deps,
                                         !.nodes[el].attrs =
                                             SetAttribute(@, Head(list).name, p.v)],
                             el, Tail(list), scope))

\* updateFn
ElementUpdate(s, f) ==
    Bind(RunDirectives([s EXCEPT !.nodes[s.fns[f].el].elDeps = <<>>], s.fns[f].el,
                       s.fns[f].directives, s.fns[f].scope),
         LAMBDA s1 : Interpolations(s1, s.fns[f].el, s.fns[f].interpolations,
                                    s.fns[f].scope))

RECURSIVE ProcessAll(_, _)
\* toProcess.forEach(el => _processElement(el, rootScope)): rootScope is Proxy(1)
ProcessAll(s, toProcess) ==
    IF toProcess = <<>> \/ s.thrown THEN s
    ELSE ProcessAll(ProcessElement_(s, Head(toProcess), Proxy(1)), Tail(toProcess))

\* a closure called
RunFn(s, f) ==
    Bind(Logged(s, [ev |-> "run", fn |-> f]), LAMBDA s1 :
         CASE s.fns[f].kind = "text" -> TextUpdate(s1, f)
           [] s.fns[f].kind = "element" -> ElementUpdate(s1, f)
           [] s.fns[f].kind = "for" -> ForUpdate(s1, s.fns[f].dir)
           [] s.fns[f].kind = "arr" -> ArrUpdate(s1, s.fns[f].dir)
           [] s.fns[f].kind = "observer" -> ProcessAll(s1, s.fns[f].toProcess)
           [] s.fns[f].kind = "dom" -> HandleDependencyChange(s1, s.fns[f].dir))

Call(s, c) ==
    CASE c.f = "RunFn" -> Result(RunFn(s, c.fn), Undefined)
      [] c.f = "Reactive" -> Reactive(s, c.target)
      [] c.f = "ProxyGet" -> ProxyGet(s, c.x, c.prop)
      [] c.f = "ProxySet" -> Result(ProxySet(s, c.x, c.prop, c.value), Undefined)
      [] c.f = "ProxyDelete" -> Result(ProxyDelete(s, c.x, c.prop), Undefined)
      [] c.f = "ArrayMethod" -> ArrayMethod(s, c.x, c.method, c.args)
      [] c.f = "Parse" -> Parse(s, c.expr, c.scope, c.names)
      [] c.f = "ParseText" -> ParseText(s, c.text, c.scope, c.names)
      [] c.f = "ProcessTextNode" -> Result(ProcessTextNode(s, c.node, c.scope), Undefined)
      [] c.f = "ProcessElement" -> Result(ProcessElement(s, c.el, c.scope), Undefined)

(***************************************************************************)
(* Spec: a page whose script declares `const n = ref(v)` and whose body    *)
(* holds two text nodes that show n.  The root scope is the reactive({})   *)
(* the bootstrap creates.                                                  *)
(***************************************************************************)
RootScope == Proxy(1)
RootDep == [NewDep EXCEPT !.proxy = TRUE]
ReactiveRoot == [NewRecord(<<>>) EXCEPT !.isReactive = TRUE, !.isReactiveProxy = TRUE,
                                        !.dep = 1]

CellValues == {Num(0), Num(1), NaN}

Template1 == <<"c", ":", "{", "{", "n", "}", "}">>
Template2 == <<"{", "{", " ", "n", " ", "}", "}">>

Init ==
    /\ queue = <<>>
    /\ isUpdating = FALSE
    /\ rafPending = 0
    /\ activeFns = <<>>
    /\ deps = <<RootDep, NewDep>>
    /\ \E v \in {Num(0), NaN} : refs = <<[value |-> v, dep |-> 2]>>
    /\ objs = <<ReactiveRoot>>
    /\ fns = <<>>
    /\ nodes = <<TextNode(Template1), TextNode(Template2)>>
    /\ dirs = <<>>
    /\ directives = Builtins
    /\ bindings = <<[key |-> "n", val |-> RefV(1)]>>
    /\ lastIndex = 0
    /\ router = NoRouter
    /\ components = NoComponents
    /\ log = <<>>
    /\ op = [name |-> "init"]
    /\ ret = Undefined

\* the tree walk reaches a text node that holds an interpolation
DoProcessTextNode ==
    \E node \in {i \in 1..Len(nodes) : nodes[i].type = "text"
                                         /\ HasInterpolation(nodes[i].text)} :
    \E s \in {ProcessTextNode_(Cur, node, RootScope)} :
        /\ Install(s)
        /\ op' = [name |-> "processTextNode", node |-> node]
        /\ ret' = Undefined

\* how many changing writes of the cell in a row this one ends (saturating)
Nth(v) ==
    IF v = refs[1].value THEN 0
    ELSE IF op.name = "refSet" THEN Min(op.nth + 1, MaxWrites) ELSE 1

\* the application assigns n.value
DoRefSet ==
    \E v \in CellValues :
    \E s \in {RefSet(Cur, 1, v)} :
        /\ Install(s)
        /\ op' = [name |-> "refSet", cell |-> 1, arg |-> v, nth |-> Nth(v),
                  was |-> refs[1].value]
        /\ ret' = Undefined

RECURSIVE AddedNodes(_)
\* the addedNodes of the childList records, one after the other
AddedNodes(events) ==
    IF events = <<>> THEN <<>>
    ELSE (IF Head(events).ev = "mutation" THEN Head(events).addedNodes ELSE <<>>)
         \o AddedNodes(Tail(events))

RECURSIVE ToProcess(_, _, _)
\* the observer's toProcess: added elements, and the parents of added text
\* nodes that hold an interpolation
ToProcess(s, added, acc) ==
    IF added = <<>> THEN Result(s, acc)
    ELSE IF s.nodes[Head(added)].type = "element"
         THEN ToProcess(s, Tail(added), SetAdd(acc, Head(added)))
         ELSE IF s.nodes[Head(added)].type = "text"
         THEN Bind(Test(s, s.nodes[Head(added)].text), LAMBDA t :
                   ToProcess(t.s, Tail(added),
                             IF t.v /\ ParentOf(s, Head(added)) # 0
                             THEN SetAdd(acc, ParentOf(s, Head(added)))
                             ELSE acc))
         ELSE ToProcess(s, Tail(added), acc)

\* the MutationObserver callback, delivered when the task that changed the
\* children of appRoot or of a node inside it has ended
Observe(s) ==
    IF \A i \in 1..Len(s.log) : s.log[i].ev # "mutation" THEN s
    ELSE Bind(ToProcess(s, AddedNodes(s.log), <<>>), LAMBDA t :
         Bind(Closure(t.s, [kind |-> "observer", toProcess |-> t.v]),
              LAMBDA c : BatchAdd(c.s, c.v)))

\* the browser runs one requestAnimationFrame callback
DoFrame ==
    /\ rafPending > 0
    /\ \E s \in {Observe(ExecuteQueue([Cur EXCEPT !.rafPending = @ - 1]))} :
           Install(s) /\ ret' = Escaped(s)
    /\ op' = [name |-> "flush", snapshot |-> queue, dirs |-> dirs,
              writes |-> IF op.name = "refSet" THEN op.nth ELSE 0]

Next == DoProcessTextNode \/ DoRefSet \/ DoFrame

Spec == Init /\ [][Next]_vars

(***************************************************************************)
(* Properties of the boxed cell and the batch scheduler (Spec).            *)
(***************************************************************************)
\* the number of times closure f was executed during the last handler
RunCount(events, f) ==
    Cardinality({i \in 1..Len(events) : events[i].ev = "run" /\ events[i].fn = f})

NoRun(events) == \A i \in 1..Len(events) : events[i].ev # "run"

\* what a text node shows for the value v of n
Rendering(template, v) ==
    IF template = Template1 THEN <<"c", ":">> \o JsString(v) ELSE JsString(v)

\* C1: writes of the cell run no evaluator and change no text; a changing
\* write leaves every subscriber of the cell in the pending queue with one
\* flush scheduled; the flush runs each evaluator of the queue exactly once,
\* leaves in its node the text of the cell's final value, and leaves nothing
\* pending.
C1_BatchCoalescing ==
    [][/\ op'.name = "refSet" => nodes' = nodes /\ NoRun(log')
       /\ (op'.name = "refSet" /\ refs'[1].value # refs[1].value) =>
              \A f \in Range(deps[refs[1].dep].subscribers) :
                  f \in Range(queue') /\ isUpdating' /\ rafPending' = 1
       /\ op'.name = "flush" =>
              /\ \A f \in 1..Len(fns) : RunCount(log', f) = IF f \in Range(queue) THEN 1 ELSE 0
              /\ \A f \in Range(queue) :
                     nodes'[fns[f].node].text
                         = Rendering(nodes[fns[f].node].content, refs[1].value)
              /\ queue' = <<>> /\ rafPending' = 0 /\ ~isUpdating'
      ]_vars

\* a flush that follows three changing writes and runs both evaluators
C1_Witness ==
    /\ op.name = "flush" /\ op.writes >= 3 /\ Len(op.snapshot) = 2
    /\ nodes[1].text = Rendering(Template1, refs[1].value)

\* a === b, or both NaN
SameValue(a, b) == StrictEq(a, b) \/ (IsNaN(a) /\ IsNaN(b))

\* C3: set(w) with w other than the value held stores w and leaves every
\* subscriber of the cell exactly once in the pending queue; set(v) with the
\* value held (NaN being equal to NaN) changes neither the value, nor the
\* queue, nor the flush-scheduled flag.
C3_SetSemantics ==
    [][op'.name = "refSet" =>
          IF SameValue(refs[1].value, op'.arg)
          THEN refs' = refs /\ queue' = queue /\ isUpdating' = isUpdating
               /\ rafPending' = rafPending
          ELSE /\ refs'[1].value = op'.arg
               /\ \A f \in Range(deps[refs[1].dep].subscribers) :
                      Cardinality({i \in 1..Len(queue') : queue'[i] = f}) = 1
      ]_vars

\* C4: set(NaN) on a cell that holds NaN enqueues no subscriber and schedules
\* no flush.
C4_NaNNoOp ==
    [][(op'.name = "refSet" /\ IsNaN(refs[1].value) /\ IsNaN(op'.arg)) =>
          queue' = queue /\ isUpdating' = isUpdating /\ rafPending' = rafPending
      ]_vars

(***************************************************************************)
(* SpecStore: a page whose script declares                                 *)
(*     const n = ref(0), l = reactive([2, 1])                              *)
(* and whose body is the text node {{n.value.b}}{{l[0].b}}, which reads    *)
(* the cell and the first item.  The script then writes the cell and the   *)
(* sequence and calls the sequence methods.                                *)
(***************************************************************************)
Starts(s) ==
    /\ queue = s.queue
    /\ isUpdating = s.isUpdating
    /\ rafPending = s.rafPending
    /\ activeFns = s.activeFns
    /\ deps = s.deps
    /\ refs = s.refs
    /\ objs = s.objs
    /\ fns = s.fns
    /\ nodes = s.nodes
    /\ dirs = s.dirs
    /\ directives = s.directives
    /\ bindings = s.bindings
    /\ lastIndex = s.lastIndex
    /\ router = s.router
    /\ components = s.components
    /\ log = <<>>
    /\ op = [name |-> "init"]
    /\ ret = Undefined

\* the heap before any reactive() call of the script
Loaded(value, heap, texts, names) ==
    [queue |-> <<>>, isUpdating |-> FALSE, rafPending |-> 0, activeFns |-> <<>>,
     deps |-> <<RootDep, NewDep>>, refs |-> <<[value |-> value, dep |-> 2]>>,
     objs |-> <<ReactiveRoot>> \o heap, fns |-> <<>>, nodes |-> texts, dirs |-> <<>>,
     directives |-> Builtins,
     bindings |-> names, lastIndex |-> 0, router |-> NoRouter,
     components |-> NoComponents, log |-> <<>>, thrown |-> FALSE]

Interpolation(expr) == OPEN \o expr \o CLOSE

StoreHeap == <<NewArray(<<Num(2), Num(1)>>)>>

StoreTexts == <<TextNode(Interpolation(<<"n", ".", "v", "a", "l", "u", "e", ".", "b">>)
                         \o Interpolation(<<"l", "[", "0", "]", ".", "b">>))>>

StoreNames == <<[key |-> "n", val |-> RefV(1)], [key |-> "l", val |-> Proxy(2)]>>

InitStore == Starts(Reactive(Loaded(Num(0), StoreHeap, StoreTexts, StoreNames), Raw(2)).s)

Elems == {Num(1), Num(2)}

\* the wrappers that exist
Proxies == {Proxy(i) : i \in {j \in 1..Len(objs) : objs[j].dep # 0 /\ deps[objs[j].dep].proxy}}

Lists == {p \in Proxies : objs[p.id].isArray}

\* p[i] = value or p.length = k on a wrapped sequence
DoProxySet ==
    \E p \in Lists :
    \E prop \in {IdxName(i) : i \in 0..Min(Len(objs[p.id].elems), MaxArrLen - 1)}
                \cup {"length"} :
    \E value \in IF prop = "length" THEN {Num(k) : k \in 0..Len(objs[p.id].elems)}
                 ELSE Elems :
    \E s \in {ProxySet_(Cur, p.id, prop, value)} :
        /\ Install(s)
        /\ op' = [name |-> "proxySet", x |-> p.id, prop |-> prop, arg |-> value]
        /\ ret' = Undefined

\* delete p[i]
DoProxyDelete ==
    \E p \in Lists :
    \E prop \in {IdxName(i) : i \in 0..(MaxArrLen - 1)} :
    \E s \in {ProxyDelete_(Cur, p.id, prop)} :
        /\ Install(s)
        /\ op' = [name |-> "proxyDelete", x |-> p.id, prop |-> prop]
        /\ ret' = Undefined

\* the argument lists the script calls the sequence methods with
MethodArgs(method, len) ==
    CASE method \in {"push", "unshift"} ->
             {[items |-> items] : items \in {<<Num(1)>>, <<Num(2), Num(1)>>}}
      [] method = "splice" ->
             {[start |-> start, deleteCount |-> deleteCount, items |-> items] :
                 start \in {0, 1}, deleteCount \in {0, 1}, items \in {<<>>, <<Num(2)>>}}
      [] OTHER -> {[items |-> <<>>]}

\* p.method(...args): the method is read off the proxy, then called on it
DoArrayMethod ==
    \E p \in Lists :
    \E method \in arrayMethods :
    \E args \in MethodArgs(method, Len(objs[p.id].elems)) :
    \E r \in {ArrayMethod_(ProxyGet_(Cur, p.id, method).s, p.id, method, args)} :
        /\ Len(objs[p.id].elems) + Len(args.items) <= MaxArrLen
        /\ Install(r.s)
        /\ op' = [name |-> "arrayMethod", x |-> p.id, method |-> method, args |-> args]
        /\ ret' = r.v

NextStore ==
    \/ DoProcessTextNode
    \/ DoRefSet
    \/ DoProxySet
    \/ DoProxyDelete
    \/ DoArrayMethod
    \/ DoFrame

SpecStore == InitStore /\ [][NextStore]_vars

(***************************************************************************)
(* Properties of the writes (SpecStore).                                   *)
(***************************************************************************)
WriteOps == {"refSet", "proxySet", "proxyDelete", "arrayMethod"}

IsPrefix(a, b) == Len(a) <= Len(b) /\ SubSeq(b, 1, Len(a)) = a

\* the keys of the notifications emitted during the last handler, in order
NotifyKeys(events) ==
    [i \in 1..Len(SelectSeq(events, LAMBDA e : e.ev = "notify")) |->
        SelectSeq(events, LAMBDA e : e.ev = "notify")[i].key]

\* C2: a write (cell set, index or length set, delete, sequence method)
\* executes no closure; it changes no DOM node, no closure and no
\* subscription, and the queue it leaves is the queue it found with closures
\* added at the end.
C2_NoSynchronousRun ==
    [][op'.name \in WriteOps =>
          /\ NoRun(log')
          /\ nodes' = nodes /\ fns' = fns /\ activeFns' = activeFns
          /\ IsPrefix(queue, queue')
          /\ \A d \in 1..Len(deps) : /\ deps'[d].subscribers = deps[d].subscribers
                                     /\ deps'[d].varSubs = deps[d].varSubs
      ]_vars

\* a sequence method that notified and left the evaluator in the queue
C2_Witness ==
    /\ op.name = "arrayMethod" /\ queue = <<1>> /\ rafPending = 1
    /\ NotifyKeys(log) # <<>>


\* C7: a call of push, pop, shift, unshift, splice, sort or reverse on a
\* wrapped sequence emits exactly one notification, the "array:mutate" one,
\* and none for an index or a property.
C7_OneNotification ==
    op.name = "arrayMethod" => NotifyKeys(log) = <<"array:mutate">>

(***************************************************************************)
(* SpecWrap: a page whose script declares                                  *)
(*     const x = {}, y = [x], u = {}, v = { c: u }, z = Object.freeze({})  *)
(* and then calls reactive() on them, on the wrappers it holds and on      *)
(* values that are no record and no sequence, and reads the wrappers'      *)
(* properties.                                                             *)
(***************************************************************************)
WrapHeap == <<NewRecord(<<>>), NewArray(<<Raw(2)>>), NewRecord(<<>>),
              NewRecord(<<[key |-> "c", val |-> Raw(4)]>>),
              NonExtensible(NewRecord(<<>>))>>

WrapNames == <<[key |-> "x", val |-> Raw(2)], [key |-> "y", val |-> Raw(3)],
               [key |-> "u", val |-> Raw(4)], [key |-> "v", val |-> Raw(5)],
               [key |-> "z", val |-> Raw(6)]>>

\* a number, a string, a boolean, undefined, a symbol, null, a function, and
\* the instances the filter of reactive names
Unsupported == {Num(0), NaN, Str(<<"a">>), True, Undefined, Sym, Null, FunctionV}
               \cup {Instance(class) : class \in {"Date", "RegExp", "Map", "Set"}}

InitWrap == Starts(Loaded(Num(0), WrapHeap, <<>>, WrapNames))

\* reactive(target), the target a raw object or a wrapper the script holds
DoReactive ==
    /\ Len(deps) < MaxDeps
    /\ \E target \in {Raw(i) : i \in 2..Len(objs)} \cup Proxies \cup Unsupported :
       \E r \in {Reactive_(Cur, target)} :
           /\ Install(r.s)
           /\ op' = [name |-> "reactive", target |-> target]
           /\ ret' = IF r.s.thrown THEN Thrown ELSE r.v

\* p[prop], read by the script
DoProxyGet ==
    \E p \in Proxies :
    \E prop \in {"c", "0", "length", "__raw"} :
    \E r \in {ProxyGet_(Cur, p.id, prop)} :
        /\ Install(r.s)
        /\ op' = [name |-> "proxyGet", x |-> p.id, prop |-> prop]
        /\ ret' = r.v

NextWrap == DoReactive \/ DoProxyGet

SpecWrap == InitWrap /\ [][NextWrap]_vars

\* C5: two calls of reactive() in a row on the same raw object return the
\* same value.
C5_SameWrapper ==
    [][(/\ op.name = "reactive" /\ op'.name = "reactive"
        /\ op'.target = op.target /\ op.target.k = "raw") => ret' = ret]_vars

\* C6: reactive() called on a wrapper, or on the value the call before it
\* returned, returns its argument and creates no dependency node and no
\* proxy.
C6_WrapOfWrapper ==
    [][(/\ op'.name = "reactive"
        /\ \/ op'.target.k = "proxy"
           \/ op.name = "reactive" /\ op'.target = ret) =>
          ret' = op'.target /\ deps' = deps /\ objs' = objs]_vars

\* reactive() called on the wrapper the call before it returned
C6_Witness ==
    op.name = "reactive" /\ op.target.k = "proxy" /\ ret = op.target


\* C16: reactive() never throws; called on a value that is no record and no
\* sequence it returns the value and changes nothing.
C16_WrapNeverFails ==
    [][op'.name = "reactive" =>
          /\ ret' # Thrown
          /\ op'.target \in Unsupported =>
                 ret' = op'.target /\ deps' = deps /\ objs' = objs
      ]_vars
(***************************************************************************)
(* SpecParse: a page whose script declares                                 *)
(*     const n = ref(0), o = reactive({ a: 1 }), l = reactive([2])         *)
(* and a scope reactive({ i: 1 }); _ExpressionParser.parse and parseText   *)
(* are applied to the bodies below, bare, padded and inside an             *)
(* interpolation.                                                          *)
(***************************************************************************)
ParseHeap == <<NewRecord(<<[key |-> "a", val |-> Num(1)]>>), NewArray(<<Num(2)>>),
               NewRecord(<<[key |-> "i", val |-> Num(1)]>>)>>

ParseNames == <<[key |-> "n", val |-> RefV(1)], [key |-> "o", val |-> Proxy(2)],
                [key |-> "l", val |-> Proxy(3)]>>

InitParse ==
    Starts(Reactive(Reactive(Reactive(Loaded(Num(0), ParseHeap, <<>>, ParseNames),
                                      Raw(2)).s,
                             Raw(3)).s,
                    Raw(4)).s)

Bodies == {<<>>, <<"n">>, <<"n", "o", "p", "e">>, <<"i">>, <<"1", "x">>, <<"o", ".", "a">>,
           <<"o", ".", "b", ".", "c">>, <<"l", "[", "0", "]">>,
           <<"l", "[", "1", "]", ".", "a">>}

\* a body inside an interpolation, with and without blanks
Texts == UNION {{OPEN \o b \o CLOSE, OPEN \o <<" ">> \o b \o <<" ">> \o CLOSE} : b \in Bodies}

Inputs == Texts \cup UNION {{b, <<" ">> \o b} : b \in Bodies}

Scopes == {Proxy(1), Proxy(4)}

\* _ExpressionParser.parse(expr, scope)
DoParse ==
    \E expr \in Inputs :
    \E scope \in Scopes :
    \E r \in {Parse_(Cur, expr, scope, <<>>)} :
        /\ Install(r.s)
        /\ op' = [name |-> "parse", expr |-> expr, scope |-> scope, threw |-> r.threw]
        /\ ret' = r.v

\* _ExpressionParser.parseText(text, scope)
DoParseText ==
    \E text \in Texts :
    \E scope \in Scopes :
    \E r \in {ParseText_(Cur, text, scope, <<>>)} :
        /\ Install(r.s)
        /\ op' = [name |-> "parseText", text |-> text, scope |-> scope]
        /\ ret' = Str(r.v)

NextParse == DoParse \/ DoParseText

SpecParse == InitParse /\ [][NextParse]_vars

\* the text parseText hands to parse for a text that is one interpolation
Inner(text) == Trim(SubSeq(text, 3, Len(text) - 2))

\* C10: when the evaluation of an expression throws, parse returns the text
\* it was called with, unchanged; and a text that is one interpolation of
\* such an expression is rendered as the expression text parse was called
\* with.
C10_ErrorReturnsText ==
    /\ (op.name = "parse" /\ op.threw) => ret = Str(op.expr)
    /\ (/\ op.name = "parseText" /\ MatchLen(op.text) = Len(op.text) /\ op.text # <<>>
        /\ Parse(Cur, Inner(op.text), op.scope, <<>>).threw) =>
           ret = Str(Inner(op.text))

(***************************************************************************)
(* SpecFor: a page whose script declares `const n = ref(c)` and whose body *)
(* is  <div r-for="n">{{index}}</div>.  The bootstrap processes the        *)
(* element; the script assigns counts to n.                                *)
(***************************************************************************)
Chars(attr) == CASE attr = "r-for" -> <<"n">> [] attr = "r-arr" -> <<"l">>

\* <div attr="...">{{index}}</div>: the element and its text child
Repeater(attr) ==
    <<[Element(<<[name |-> attr, value |-> Chars(attr)]>>) EXCEPT !.children = <<2>>],
      TextNode(Interpolation(<<"i", "n", "d", "e", "x">>))>>

InitFor ==
    \E c \in 0..MaxCount :
        Starts(Loaded(Num(c), <<>>, Repeater("r-for"), <<[key |-> "n", val |-> RefV(1)]>>))

\* the bootstrap's _processElement(appRoot, rootScope)
DoProcessElement ==
    /\ ~nodes[1].processed
    /\ \E s \in {ProcessElement_(Cur, 1, RootScope)} : Install(s)
    /\ op' = [name |-> "processElement", el |-> 1]
    /\ ret' = Undefined

\* n.value = c
DoSetCount ==
    \E c \in 0..MaxCount :
    \E s \in {RefSet(Cur, 1, Num(c))} :
        /\ Len(nodes) < MaxNodes
        /\ Install(s)
        /\ op' = [name |-> "refSet", cell |-> 1, arg |-> Num(c), nth |-> Nth(Num(c))]
        /\ ret' = Undefined

NextFor == DoProcessElement \/ DoSetCount \/ DoFrame

SpecFor == InitFor /\ [][NextFor]_vars

RECURSIVE Flat(_)
\* the node lists of cache entries, one after the other
Flat(entries) == IF entries = <<>> THEN <<>> ELSE Head(entries).nodes \o Flat(Tail(entries))

CacheKeys(nodeCache) == {nodeCache[i].key : i \in 1..Len(nodeCache)}

\* the flush that is running re-renders the directive with fewer items
Shrinks ==
    /\ op'.name = "flush" /\ dirs # <<>>
    /\ \E f \in Range(queue) : fns[f].kind \in {"for", "arr"}
    /\ Len(dirs'[1].prevKeys) < Len(dirs[1].prevKeys)

\* C8: when a re-render of r-for finds a count M below the count N of the
\* render before, the cache keeps exactly the keys 1..M, each with the entry
\* (the node objects and the item scope object) it had; the container holds
\* those nodes, in key order, and none of the nodes of the keys above M.
C8_ForShrink ==
    [][Shrinks =>
          /\ CacheKeys(dirs'[1].nodeCache) = 1..Len(dirs'[1].prevKeys)
          /\ \A k \in 1..Len(dirs'[1].prevKeys) :
                 CacheGet(dirs'[1].nodeCache, k) = CacheGet(dirs[1].nodeCache, k)
          /\ nodes'[1].children
                 = Flat([k \in 1..Len(dirs'[1].prevKeys) |-> CacheGet(dirs[1].nodeCache, k)])
          /\ \A e \in Range(dirs[1].nodeCache) :
                 e.key > Len(dirs'[1].prevKeys) =>
                     Range(e.nodes) \cap Range(nodes'[1].children) = {}
          /\ Len(objs') = Len(objs)
      ]_vars

\* a re-render from three items to two
C8_Witness ==
    /\ op.name = "flush" /\ op.dirs # <<>>
    /\ Len(op.dirs[1].prevKeys) = 3 /\ Len(dirs[1].prevKeys) = 2
    /\ Len(nodes[1].children) = 2

(***************************************************************************)
(* SpecArr: a page whose script declares                                   *)
(*     const l = reactive([{ id: 1 }, { id: 2 }])                          *)
(* and whose body is  <div r-arr="l">{{index}}</div>.  The bootstrap       *)
(* processes the element; the script calls reverse, pop and shift on l.    *)
(***************************************************************************)
ArrHeap == <<NewArray(<<Raw(3), Raw(4)>>), NewRecord(<<[key |-> "id", val |-> Num(1)]>>),
             NewRecord(<<[key |-> "id", val |-> Num(2)]>>)>>

InitArr ==
    Starts(Reactive(Loaded(Num(0), ArrHeap, Repeater("r-arr"),
                           <<[key |-> "l", val |-> Proxy(2)]>>),
                    Raw(2)).s)

\* l.reverse(), l.pop(), l.shift()
DoListMethod ==
    \E method \in {"reverse", "pop", "shift"} :
    \E r \in {ArrayMethod_(ProxyGet_(Cur, 2, method).s, 2, method, [items |-> <<>>])} :
        /\ Len(nodes) < MaxNodes
        /\ Install(r.s)
        /\ op' = [name |-> "arrayMethod", x |-> 2, method |-> method]
        /\ ret' = r.v

NextArr == DoProcessElement \/ DoListMethod \/ DoFrame

SpecArr == InitArr /\ [][NextArr]_vars

\* what the scope of a cache entry holds under a name, in a heap
ScopeField(heap, entry, name) == ReflectGet(heap[entry.itemScope.id], name)

\* the items of the render before, in its order
PrevItems ==
    [i \in 1..Len(dirs[1].prevKeys) |->
        ScopeField(objs, CacheGet(dirs[1].nodeCache, dirs[1].prevKeys[i]), "value")]

\* the flush that is running re-renders r-arr over the items of the render
\* before, in another order
Reorders ==
    /\ op'.name = "flush" /\ dirs # <<>>
    /\ \E f \in Range(queue) : fns[f].kind = "arr"
    /\ \A k \in Range(dirs[1].prevKeys) : HasKey(dirs[1].nodeCache, k)
    /\ Cardinality(Range(PrevItems)) = Len(PrevItems)
    /\ Range(objs[2].elems) = Range(PrevItems)
    /\ Len(objs[2].elems) = Len(PrevItems)
    /\ objs[2].elems # PrevItems

\* C9: when a re-render of r-arr finds the items of the render before in
\* another order, every item is matched with the cache entry it had: the
\* cache is left as it was (no entry added, none replaced), no object is
\* created for a scope, and the scope of each entry holds the item it held,
\* with the position of that item in the new order.
C9_ArrReorder ==
    [][Reorders =>
          /\ dirs'[1].nodeCache = dirs[1].nodeCache
          /\ Len(objs') = Len(objs) /\ Len(deps') = Len(deps)
          /\ \A e \in Range(dirs[1].nodeCache) :
                 /\ ScopeField(objs', e, "value") = ScopeField(objs, e, "value")
                 /\ \E i \in 1..Len(objs'[2].elems) :
                        /\ objs'[2].elems[i] = ScopeField(objs', e, "value")
                        /\ ScopeField(objs', e, "index") = Num(i - 1)
      ]_vars

\* a re-render of the two items, reversed
C9_Witness ==
    /\ op.name = "flush" /\ op.dirs # <<>>
    /\ op.dirs[1].prevKeys = <<"1", "2">> /\ dirs[1].prevKeys = <<"2", "1">>
    /\ \E e \in Range(dirs[1].nodeCache) :
           e.key = "2" /\ ScopeField(objs, e, "index") = Num(0)


(***************************************************************************)
(* Properties of the dependency nodes (SpecStore).                         *)
(***************************************************************************)
\* the closures subscribed to one key of a dependency node
KeySubs(dep, variable) ==
    IF HasVar(dep, variable) THEN Range(VarSubsOf(dep, variable)) ELSE {}

\* C18: in every reachable state, for every dependency node, every closure
\* of every per-key subscriber set is in the node's global subscriber set.
C18_GlobalSuperset ==
    \A d \in 1..Len(deps) : \A i \in 1..Len(deps[d].varSubs) :
        Range(deps[d].varSubs[i].subs) \subseteq Range(deps[d].subscribers)

\* a node of a wrapped sequence that holds a keyed subscription
C18_Witness ==
    \E d \in 1..Len(deps) :
        /\ deps[d].proxy
        /\ \E i \in 1..Len(deps[d].varSubs) : deps[d].varSubs[i].subs # <<>>

\* C19: a write p[k] = value enqueues only closures subscribed to the key
\* of k; a closure subscribed only to other keys of p is not enqueued, also
\* when no closure is subscribed to k.
C19_OnlyKeySubscribers ==
    [][(op'.name = "proxySet" /\ op'.prop # "length") =>
          Range(queue') \ Range(queue)
              \subseteq KeySubs(deps[objs[op'.x].dep], SubKey(objs[op'.x], op'.prop))
      ]_vars

\* the cell held v1, the last operation was set(v2) with v2 other than v1,
\* and this step is set(v1)
SetsBack ==
    /\ op.name = "refSet" /\ ~SameValue(op.was, op.arg)
    /\ op'.name = "refSet" /\ op'.arg = op.was

\* C20 as stated: after box(v1) and set(v2) with v1 other than v2, a
\* following set(v1) changes nothing and produces no notification.
C20_SetBackNoOp ==
    [][SetsBack => /\ refs' = refs /\ queue' = queue /\ rafPending' = rafPending
                   /\ NotifyKeys(log') = <<>>
      ]_vars

\* C20: after box(v1) and set(v2) with v1 other than v2, a following set(v1)
\* is a changing write: it stores v1, emits one notification and leaves every
\* subscriber of the cell exactly once in the pending queue.
C20_SetBackNotifies ==
    [][SetsBack => /\ refs'[1].value = op.was
                   /\ Len(NotifyKeys(log')) = 1
                   /\ \A f \in Range(deps[refs[1].dep].subscribers) :
                          Cardinality({i \in 1..Len(queue') : queue'[i] = f}) = 1
      ]_vars

\* set(v1) right after set(v2), with both evaluators subscribed
C20_Witness ==
    /\ op.name = "refSet" /\ op.nth >= 2 /\ op.arg = Num(0) /\ op.was = Num(1)
    /\ Len(deps[refs[1].dep].subscribers) = 2 /\ Len(queue) = 2

(***************************************************************************)
(* SpecScope: a page whose script declares  const n = ref(2),              *)
(*     const l = reactive([{ id: 1 }, { id: 2 }])  and  provide("t", 0),   *)
(* and whose body is  <div r-for="n">{{index}}</div>  or                   *)
(* <div r-arr="l">{{index}}</div>.  The bootstrap processes the element;   *)
(* the script changes n and l and writes fields of the item scopes.        *)
(***************************************************************************)
ScopeNames == <<[key |-> "n", val |-> RefV(1)], [key |-> "l", val |-> Proxy(2)]>>

\* _pendingProviders.forEach(([key, value]) => rootScope[key] = value)
Provided(s) == ProxySet_(s, RootScope.id, "t", Num(0))

InitScope ==
    \E attr \in Directives :
        Starts(Provided(Reactive(Loaded(Num(2), ArrHeap, Repeater(attr), ScopeNames),
                                 Raw(2)).s))

\* the item scope of the i-th cache entry of the directive
ItemScopeOf(heap, i) == heap[1].nodeCache[i].itemScope.id

\* the cache entries of the directive
Items == IF dirs = <<>> THEN {} ELSE 1..Len(dirs[1].nodeCache)

\* itemScope.t = 7, for the item scope of one cache entry
DoScopeSet ==
    \E i \in Items :
    \E s \in {ProxySet_(Cur, ItemScopeOf(dirs, i), "t", Num(7))} :
        /\ Install(s)
        /\ op' = [name |-> "scopeSet", item |-> i, prop |-> "t"]
        /\ ret' = Undefined

\* n.value = 1 or 2, or l.reverse(): what makes the directive render again
DoRender ==
    \E s \in {RefSet(Cur, 1, Num(c)) : c \in 1..2}
              \cup {ArrayMethod_(ProxyGet_(Cur, 2, "reverse").s, 2, "reverse",
                                 [items |-> <<>>]).s} :
        /\ Len(nodes) < MaxNodes
        /\ Install(s)
        /\ op' = [name |-> "render"]
        /\ ret' = Undefined

NextScope == DoProcessElement \/ DoRender \/ DoScopeSet \/ DoFrame

SpecScope == InitScope /\ [][NextScope]_vars

\* C11: a write of a field of the item scope of one item of a repetition
\* directive stores the value there and changes no field of the scope the
\* directive was given, nor of the item scope of any other item.
C11_ScopeIsolation ==
    [][op'.name = "scopeSet" =>
          /\ ReflectGet(objs'[ItemScopeOf(dirs, op'.item)], op'.prop) = Num(7)
          /\ objs'[RootScope.id] = objs[RootScope.id]
          /\ \A j \in Items \ {op'.item} :
                 objs'[ItemScopeOf(dirs, j)] = objs[ItemScopeOf(dirs, j)]
      ]_vars

\* a changing write of a field of one of two item scopes, after a re-render
C11_Witness ==
    /\ op.name = "scopeSet" /\ Cardinality(Items) = 2
    /\ ReflectGet(objs[ItemScopeOf(dirs, op.item)], "t") = Num(7)
    /\ ReflectGet(objs[RootScope.id], "t") = Num(0)
    /\ \E j \in Items : ReflectGet(objs[ItemScopeOf(dirs, j)], "t") = Num(0)
    /\ Len(nodes) > 8

(***************************************************************************)
(* SpecBatch: a page whose script declares  const n = ref(0)  and          *)
(* const m = ref(0)  and whose body holds the text nodes                   *)
(*     {{n}}{{n.value=m.value}}     and     {{m.value.b}}                  *)
(* The bootstrap has processed both; the script assigns numbers and        *)
(* symbols to the cells.                                                   *)
(***************************************************************************)
Copier == Interpolation(<<"n">>)
          \o Interpolation(<<"n", ".", "v", "a", "l", "u", "e", "=",
                             "m", ".", "v", "a", "l", "u", "e">>)

Reader == Interpolation(<<"m", ".", "v", "a", "l", "u", "e", ".", "b">>)

BatchNames == <<[key |-> "n", val |-> RefV(1)], [key |-> "m", val |-> RefV(2)]>>

\* the page before the bootstrap
BatchPage ==
    [Loaded(Num(0), <<>>, <<TextNode(Copier), TextNode(Reader)>>, BatchNames)
        EXCEPT !.deps = <<RootDep, NewDep, NewDep>>,
               !.refs = <<[value |-> Num(0), dep |-> 2], [value |-> Num(0), dep |-> 3]>>]

InitBatch == Starts(ProcessTextNode_(ProcessTextNode_(BatchPage, 1, RootScope), 2, RootScope))

BatchValues == {Num(0), Num(1), Sym}

\* n.value = v or m.value = v; `targets` are the closures the setter adds
DoCellSet ==
    \E cell \in 1..Len(refs) :
    \E v \in BatchValues :
    \E s \in {RefSet(Cur, cell, v)} :
        /\ Install(s)
        /\ op' = [name |-> "cellSet", cell |-> cell, arg |-> v,
                  targets |-> IF StrictEq(refs[cell].value, v) THEN <<>>
                              ELSE deps[refs[cell].dep].subscribers]
        /\ ret' = Escaped(s)

NextBatch == DoCellSet \/ DoFrame

SpecBatch == InitBatch /\ [][NextBatch]_vars

(***************************************************************************)
(* Properties of the batch scheduler (SpecBatch).                          *)
(***************************************************************************)
\* the closures the last handler caught an exception of
Failed(events) == {events[i].fn : i \in {j \in 1..Len(events) : events[j].ev = "error"}}

\* C12: a flush runs every evaluator of its snapshot exactly once, also
\* those that follow one that throws; no exception escapes the flush, and
\* the flush leaves the flush-scheduled flag clear, so that the next
\* addition schedules a flush.
C12_ThrowIsolated ==
    [][op'.name = "flush" =>
          /\ \A f \in Range(queue) : RunCount(log', f) = 1
          /\ ret' # Thrown
          /\ ~isUpdating'
          /\ Failed(log') \subseteq Range(queue)
      ]_vars

\* a flush of two evaluators whose first threw and whose second ran and
\* wrote its text
C12_Witness ==
    /\ op.name = "flush" /\ op.snapshot = <<1, 2>>
    /\ Failed(log) = {1} /\ RunCount(log, 2) = 1
    /\ refs[2].value = Sym
    /\ nodes[2].text = JsString(Undefined)
    /\ ~isUpdating /\ ret = Undefined

\* C13: an evaluator in the pending queue needs no further enqueue to be
\* run: in every state in which the queue holds an evaluator a flush is
\* scheduled, in particular after a flush during which evaluators were
\* enqueued.
C13_PendingIsScheduled == queue # <<>> => rafPending > 0

\* C14: a flush executes the evaluators that were in the queue when it
\* began, each once, and no other: an evaluator added while it runs, the
\* running one included, is left in the queue.
C14_SnapshotOnly ==
    [][op'.name = "flush" =>
          /\ \A f \in 1..Len(fns') : RunCount(log', f) = IF f \in Range(queue) THEN 1 ELSE 0
          /\ Len(SelectSeq(log', LAMBDA e : e.ev = "run")) = Len(queue)
      ]_vars

\* a flush whose first evaluator wrote the cell it reads: it ran once and is
\* in the queue again
C14_Witness ==
    /\ op.name = "flush" /\ op.snapshot = <<1, 2>>
    /\ RunCount(log, 1) = 1 /\ queue = <<1>>
    /\ refs[1].value = Num(1)

NoDuplicate(seq) == \A i, j \in 1..Len(seq) : seq[i] = seq[j] => i = j

\* C15: the queue holds no closure twice and at most one flush is
\* scheduled; a write that adds only closures that are in the queue already
\* changes neither the queue, nor the flush-scheduled flag, nor the number
\* of scheduled flushes.
C15_Dedup ==
    [][/\ NoDuplicate(queue') /\ rafPending' <= 1
       /\ (op'.name = "cellSet" /\ Range(op'.targets) \subseteq Range(queue)) =>
              queue' = queue /\ isUpdating' = isUpdating /\ rafPending' = rafPending
      ]_vars

(***************************************************************************)
(* SpecDirective: a page whose script declares  const n = ref(2)  and      *)
(* whose body is  <div r-for="n">{{index}}</div>.  Handlers are registered *)
(* under the names r-for and r-x, before and after the bootstrap processes *)
(* the element.                                                            *)
(***************************************************************************)
InitDirective ==
    Starts(Loaded(Num(2), <<>>, Repeater("r-for"), <<[key |-> "n", val |-> RefV(1)]>>))

\* the handlers given: two functions, and values that are not callable
Handlers == {Handler("r-x"), Handler("r-for"), Undefined, Null, Num(0), Str(<<"f">>),
             RootScope}

\* _registerDirective(name, handler)
DoRegisterDirective ==
    \E name \in {"r-for", "r-x"} :
    \E handler \in Handlers :
    \E s \in {RegisterDirective(Cur, name, handler)} :
        /\ Install(s)
        /\ op' = [name |-> "registerDirective", directive |-> name, handler |-> handler]
        /\ ret' = Escaped(s)

NextDirective == DoRegisterDirective \/ DoProcessElement

SpecDirective == InitDirective /\ [][NextDirective]_vars

\* C17: a registration with a handler that is not a function throws and
\* leaves the table as it was; a registration with a function throws nothing,
\* makes the name resolve to that function and leaves every other name as it
\* was.
C17_RegisterDirective ==
    [][op'.name = "registerDirective" =>
          IF op'.handler.k = "function"
          THEN /\ ret' # Thrown
               /\ GetDirective(directives', op'.directive) = op'.handler
               /\ \A name \in {"r-for", "r-arr", "r-x"} \ {op'.directive} :
                      GetDirective(directives', name) = GetDirective(directives, name)
          ELSE ret' = Thrown /\ directives' = directives
      ]_vars

\* a registration of null under a name that resolves to a handler registered
\* before, after the element was processed
C17_Witness ==
    /\ op.name = "registerDirective" /\ op.handler = Null /\ op.directive = "r-for"
    /\ ret = Thrown
    /\ GetDirective(directives, "r-for") = Handler("r-x")
    /\ GetDirective(directives, "r-x") = Handler("r-for")
    /\ nodes[1].processed

(***************************************************************************)
(* SpecTrack: a page whose script declares                                 *)
(*     const n = ref(1), o = reactive({}), l = reactive([2, 1]),           *)
(*           x = { b: 1 }                                                  *)
(* and whose body is  <div r-for="n">{{l[0]}}{{o.a.b}}</div>.  The         *)
(* bootstrap processes the element; the script reads and writes o, l and   *)
(* the record it stores under o.a.                                         *)
(***************************************************************************)
TrackHeap == <<NewRecord(<<>>), NewArray(<<Num(2), Num(1)>>),
               NewRecord(<<[key |-> "b", val |-> Num(1)]>>)>>

TrackNames == <<[key |-> "n", val |-> RefV(1)], [key |-> "o", val |-> Proxy(2)],
                [key |-> "l", val |-> Proxy(3)]>>

TrackTemplate == Interpolation(<<"l", "[", "0", "]">>)
                 \o Interpolation(<<"o", ".", "a", ".", "b">>)

TrackPage == <<[Element(<<[name |-> "r-for", value |-> <<"n">>]>>) EXCEPT !.children = <<2>>],
               TextNode(TrackTemplate)>>

InitTrack ==
    Starts(Reactive(Reactive(Loaded(Num(1), TrackHeap, TrackPage, TrackNames), Raw(2)).s,
                    Raw(3)).s)

\* on the pages of SpecTrack and SpecCache no write is made once the DOM heap
\* holds this many nodes
MaxTrackNodes == 10

TrackValues == {Num(1), NaN}

\* the writes of the script: o.a = x, o.a.b = v, l[0] = v
TrackWrites ==
    {[x |-> 2, prop |-> "a", arg |-> Raw(4)]}
    \cup {[x |-> 3, prop |-> "0", arg |-> v] : v \in TrackValues}
    \cup {[x |-> 4, prop |-> "b", arg |-> v] : v \in IF objs[4].isReactiveProxy
                                                      THEN TrackValues ELSE {}}

\* p[prop] = arg, p one of the wrappers the script holds
DoTrackWrite ==
    \E w \in TrackWrites :
    \E s \in {ProxySet_(Cur, w.x, w.prop, w.arg)} :
        /\ Len(nodes) < MaxTrackNodes
        /\ Install(s)
        /\ op' = [name |-> "proxySet", x |-> w.x, prop |-> w.prop, arg |-> w.arg,
                  was |-> ReflectGet(objs[w.x], w.prop)]
        /\ ret' = Undefined

\* n.value, o.a, l[0] read by the script, outside any evaluator
DoTrackRead ==
    \E r \in {RefGet(Cur, 1), ProxyGet_(Cur, 2, "a"), ProxyGet_(Cur, 3, "0")} :
        /\ Install(r.s)
        /\ op' = [name |-> "read"]
        /\ ret' = r.v

NextTrack == DoProcessElement \/ DoTrackWrite \/ DoTrackRead \/ DoFrame

SpecTrack == InitTrack /\ [][NextTrack]_vars

(***************************************************************************)
(* Properties of dependency tracking (SpecTrack).                          *)
(***************************************************************************)
\* the keys a dependency node holds subscriptions under
KeysOf(dep) == {dep.varSubs[i].key : i \in 1..Len(dep.varSubs)}

\* the closures of some kinds
OfKind(heap, kinds) == {f \in 1..Len(heap) : heap[f].kind \in kinds}

\* C21: an evaluator the flush re-executes is on top of the active stack
\* while it runs: a text evaluator that a flush re-executes and that reads
\* o.a.b, o.a holding a wrapped record by then, is subscribed to the key b of
\* that record when the flush ends.
C21_ReexecutionSubscribes ==
    [][op'.name = "flush" =>
          \A f \in Range(queue) :
              (fns[f].kind = "text" /\ ReflectGet(objs'[2], "a") = Proxy(4)) =>
                  f \in KeySubs(deps'[objs'[4].dep], "b")
      ]_vars

\* C22: a read made by the script, outside any evaluator, changes no
\* subscriber set; the reads made while the element is processed subscribe
\* the evaluator that was on top of the stack when they were made (the
\* r-for closure for the cell n, the text closure and the r-for closure for
\* l[0], o.a and the index of the item scope) and never the element closures
\* that were below it; l[0] is subscribed under the key of index 0, o.a and
\* the fields of a scope under their names.
C22_TopOfStack ==
    [][/\ op'.name = "read" =>
              \A d \in 1..Len(deps') :
                  /\ deps'[d].subscribers = IF d <= Len(deps) THEN deps[d].subscribers ELSE <<>>
                  /\ deps'[d].varSubs = IF d <= Len(deps) THEN deps[d].varSubs ELSE <<>>
       /\ op'.name = "processElement" =>
              /\ Range(deps'[refs'[1].dep].subscribers) = OfKind(fns', {"for"})
              /\ KeySubs(deps'[objs'[3].dep], "index:0") = OfKind(fns', {"for", "text"})
              /\ KeySubs(deps'[objs'[2].dep], "a") = OfKind(fns', {"for", "text"})
              /\ KeySubs(deps'[objs'[5].dep], "index") = OfKind(fns', {"for", "text"})
       /\ \A d \in 1..Len(deps') :
              Range(deps'[d].subscribers) \cap OfKind(fns', {"element"}) = {}
       /\ KeysOf(deps'[objs'[3].dep]) \subseteq {"index:0"}
       /\ KeysOf(deps'[objs'[2].dep]) \subseteq {"a"}
       /\ \A j \in 5..Len(objs') : KeysOf(deps'[objs'[j].dep]) \subseteq {"index"}
      ]_vars

\* the script reads o.a, which wraps the record, after the element was
\* processed under three nested closures
C22_Witness ==
    /\ op.name = "read" /\ ret = Proxy(4)
    /\ Len(deps[objs[2].dep].subscribers) = 2
    /\ deps[objs[4].dep].subscribers = <<>>
    /\ OfKind(fns, {"element"}) # {}

\* C29: a write of a property or an index of a wrapper with the value it
\* holds, NaN being equal to NaN, changes no object, no subscription and no
\* queue, schedules no flush and emits no notification.
C29_EqualWriteNoOp ==
    [][(op'.name = "proxySet" /\ SameValue(op'.was, op'.arg)) =>
          /\ objs' = objs /\ deps' = deps /\ queue' = queue
          /\ rafPending' = rafPending /\ isUpdating' = isUpdating
          /\ NotifyKeys(log') = <<>>
      ]_vars

\* l[0] = NaN on a sequence whose first item is NaN and has two subscribers,
\* nothing being queued
C29_Witness ==
    /\ op.name = "proxySet" /\ op.x = 3 /\ IsNaN(op.arg) /\ IsNaN(op.was)
    /\ Cardinality(KeySubs(deps[objs[3].dep], "index:0")) = 2
    /\ queue = <<>>

(***************************************************************************)
(* SpecOrder: the page of SpecBatch, its second text node processed before *)
(* its first: the evaluator of {{m.value.b}} is the first subscriber of m, *)
(* the evaluator of {{n}}{{n.value=m.value}} the second, and the only one  *)
(* of n.                                                                   *)
(***************************************************************************)
InitOrder == Starts(ProcessTextNode_(ProcessTextNode_(BatchPage, 2, RootScope), 1, RootScope))

SpecOrder == InitOrder /\ [][NextBatch]_vars

\* the closures executed during the last handler, in the order of execution
Runs(events) ==
    [i \in 1..Len(SelectSeq(events, LAMBDA e : e.ev = "run")) |->
        SelectSeq(events, LAMBDA e : e.ev = "run")[i].fn]

\* C23: a flush executes the evaluators of the queue in the order the queue
\* holds them, and a write leaves the queue it found in place and adds after
\* it, in the order of the notification, the evaluators that were not
\* queued: the queue is in the order of first insertion, and an evaluator
\* that is added again is not moved.
C23_InsertionOrder ==
    [][/\ op'.name = "flush" => Runs(log') = queue
       /\ op'.name = "cellSet" =>
              queue' = queue \o SelectSeq(op'.targets, LAMBDA f : f \notin Range(queue))
      ]_vars

\* n was written, then m: the evaluator of n was queued first and added again
\* by the write of m; the flush ran it before the other subscriber of m
C23_Witness ==
    /\ op.name = "flush" /\ op.snapshot = <<2, 1>>
    /\ Runs(log) = <<2, 1>>
    /\ deps[refs[2].dep].subscribers = <<1, 2>>

(***************************************************************************)
(* SpecCache: a page whose script declares                                 *)
(*     const n = ref(2), l = reactive([1, Symbol()])                       *)
(* and whose body is  <div r-for="n">{{index}}</div>  or                   *)
(* <div r-arr="l">{{value}}</div>.  The bootstrap processes the element;   *)
(* the script assigns counts to n and calls shift, pop and push on l.      *)
(***************************************************************************)
CacheHeap == <<NewArray(<<Num(1), Sym>>)>>

CachePage(attr) ==
    <<[Element(<<[name |-> attr, value |-> Chars(attr)]>>) EXCEPT !.children = <<2>>],
      TextNode(Interpolation(IF attr = "r-for" THEN <<"i", "n", "d", "e", "x">>
                             ELSE <<"v", "a", "l", "u", "e">>))>>

InitCache ==
    \E attr \in Directives :
        Starts(Reactive(Loaded(Num(2), CacheHeap, CachePage(attr), ScopeNames), Raw(2)).s)

\* n.value = c on the page of r-for; l.shift(), l.pop(), l.push(1) on the
\* page of r-arr
DoCacheWrite ==
    \E s \in IF nodes[1].attrs[1].name = "r-for"
              THEN {RefSet(Cur, 1, Num(c)) : c \in 0..2}
              ELSE {ArrayMethod_(ProxyGet_(Cur, 2, method).s, 2, method,
                                 [items |-> <<>>]).s : method \in {"shift", "pop"}}
                   \cup {ArrayMethod_(ProxyGet_(Cur, 2, "push").s, 2, "push",
                                      [items |-> <<Num(1)>>]).s} :
        /\ Len(nodes) < MaxTrackNodes
        /\ Len(s.objs[2].elems) <= MaxArrLen
        /\ Install(s)
        /\ op' = [name |-> "write"]
        /\ ret' = Undefined

NextCache == DoProcessElement \/ DoCacheWrite \/ DoFrame

SpecCache == InitCache /\ [][NextCache]_vars

\* the keys the directive's expression evaluates to: 1..count for r-for, one
\* key `${index}-${String(item)}` per item for r-arr over numbers and symbols
CurrentKeys(ds, rs, os) ==
    IF ds[1].kind = "for" THEN 1..ForCount(rs[1].value)
    ELSE {Join(NatToChars(i - 1) \o <<"-">> \o JsString(os[2].elems[i])) :
              i \in {j \in 1..Len(os[2].elems) : os[2].elems[j] # Absent}}

\* this step ran an update of the directive to its end
Completes ==
    /\ dirs' # <<>>
    /\ \/ op'.name = "processElement" /\ Failed(log') = {}
       \/ /\ op'.name = "flush"
          /\ \E f \in Range(queue) : fns[f].kind \in {"for", "arr"} /\ f \notin Failed(log')

\* C24: after every update of r-for or r-arr that ran to its end the keys of
\* the directive's cache are exactly the keys of the current evaluation, also
\* when an update before it was aborted by an exception.
C24_CacheIsCurrent ==
    [][Completes => CacheKeys(dirs'[1].nodeCache) = CurrentKeys(dirs', refs', objs')]_vars

(***************************************************************************)
(* SpecElement: a page whose script declares  const n = ref(0)  and        *)
(* registers the directives r-boom, a handler that throws, and r-x, a      *)
(* handler that does nothing, and whose body is                            *)
(*     <p r-boom r-x t="{{n}}">{{n}}</p><p a="{{n}}" b="{{n}}"></p>        *)
(* The bootstrap processes appRoot.  The script then writes n, sets        *)
(* __forceUpdate on an element, and appends an element of the body to      *)
(* appRoot again, which the observer answers by processing it.             *)
(***************************************************************************)
MaxClosures == 7    \* nothing that builds a closure is done once this many exist

ElementPage ==
    <<[Element(<<>>) EXCEPT !.children = <<2, 4>>],
      [Element(<<[name |-> "r-boom", value |-> <<>>], [name |-> "r-x", value |-> <<>>],
                 [name |-> "t", value |-> Interpolation(<<"n">>)]>>)
          EXCEPT !.children = <<3>>],
      TextNode(Interpolation(<<"n">>)),
      Element(<<[name |-> "a", value |-> Interpolation(<<"n">>)],
                [name |-> "b", value |-> Interpolation(<<"n">>)]>>)>>

InitElement ==
    Starts(RegisterDirective(
               RegisterDirective(Loaded(Num(0), <<>>, ElementPage,
                                        <<[key |-> "n", val |-> RefV(1)]>>),
                                 "r-boom", Thrower),
               "r-x", Handler("r-x")))

\* appRoot.appendChild(el), once the bootstrap has set up the observer
DoAppendChild ==
    \E el \in {2, 4} :
    \E s \in {Observe(AppendChild(Cur, AppRoot, el))} :
        /\ nodes[AppRoot].processed
        /\ Len(fns) < MaxClosures
        /\ Install(s)
        /\ op' = [name |-> "appendChild", el |-> el]
        /\ ret' = Undefined

\* el.__forceUpdate = true
DoForceUpdate ==
    \E el \in {2, 4} :
        /\ ~nodes[el].forceUpdate
        /\ Len(fns) < MaxClosures
        /\ Install([Cur EXCEPT !.nodes[el].forceUpdate = TRUE])
        /\ op' = [name |-> "forceUpdate", el |-> el]
        /\ ret' = Undefined

\* n.value = v
DoElementWrite ==
    \E v \in {Num(0), Num(1)} :
        /\ Install(RefSet(Cur, 1, v))
        /\ op' = [name |-> "write"]
        /\ ret' = Undefined

NextElement == DoProcessElement \/ DoElementWrite \/ DoAppendChild \/ DoForceUpdate \/ DoFrame

SpecElement == InitElement /\ [][NextElement]_vars

\* the elements the observer closures of the queue process in this flush
Reprocessed ==
    IF op'.name # "flush" THEN {}
    ELSE UNION {Range(fns[f].toProcess) : f \in {g \in Range(queue) : fns[g].kind = "observer"}}

\* the closures this step built for an element
Built(el) ==
    {f \in (Len(fns) + 1)..Len(fns') : fns'[f].kind = "element" /\ fns'[f].el = el}

\* C25: the tree walk does nothing on a node that was processed: a flush that
\* processes an element again executes no update closure of that element
\* (other than one the queue held) and creates no text-binding closure.
C25_ProcessedOnce ==
    [][\A el \in Reprocessed :
           nodes[el].processed =>
               /\ \A i \in 1..Len(log') :
                      (/\ log'[i].ev = "run"
                       /\ fns'[log'[i].fn].kind = "element"
                       /\ fns'[log'[i].fn].el = el) => log'[i].fn \in Range(queue)
               /\ OfKind(fns', {"text"}) = OfKind(fns, {"text"})]_vars

\* the classification of the attributes of an element, each attribute on its
\* own: directive for a registered name, interpolated for any other attribute
\* whose value holds an interpolation
Classified(attrs, table) ==
    [directives |-> SelectSeq(attrs, LAMBDA a : HasDirective(table, a.name)),
     interpolations |-> SelectSeq(attrs, LAMBDA a : /\ ~HasDirective(table, a.name)
                                                    /\ HasInterpolation(a.value))]

\* the names of a list of attributes
Names(attrs) == [i \in 1..Len(attrs) |-> attrs[i].name]

\* the attrMap of an update closure
AttrMap(fn) == [directives |-> fn.directives, interpolations |-> fn.interpolations]

\* C26: every update closure that is built classifies each attribute of its
\* element on its own: directive when the name is registered, interpolated
\* when the value of any other attribute holds an interpolation, whatever was
\* tested before.
C26_Classification ==
    [][\A f \in (Len(fns) + 1)..Len(fns') :
           fns'[f].kind = "element" =>
               AttrMap(fns'[f]) = Classified(nodes[fns'[f].el].attrs, directives)]_vars

\* the handler calls of the last handler, in the order they were made
Called(events) ==
    [i \in 1..Len(SelectSeq(events, LAMBDA e : e.ev = "directive")) |->
        [el |-> SelectSeq(events, LAMBDA e : e.ev = "directive")[i].el,
         name |-> SelectSeq(events, LAMBDA e : e.ev = "directive")[i].name]]

RECURSIVE Due(_, _)
\* the handler calls the executed update closures owe: for every execution,
\* one call per directive attribute, in the order of the attributes
Due(events, heap) ==
    IF events = <<>> THEN <<>>
    ELSE (IF Head(events).ev = "run" /\ heap[Head(events).fn].kind = "element"
          THEN [i \in 1..Len(heap[Head(events).fn].directives) |->
                   [el |-> heap[Head(events).fn].el,
                    name |-> heap[Head(events).fn].directives[i].name]]
          ELSE <<>>) \o Due(Tail(events), heap)

\* C27: every execution of an update closure calls the handler of each of its
\* directive attributes once, in the order of the attributes, also after a
\* handler that threw; the attributes it holds as interpolated show n when the
\* step ends, and the bootstrap's walk binds the text below the element whose
\* handler throws and builds the closure of the element after it.
C27_HandlersIsolated ==
    [][/\ Called(log') = Due(log', fns')
       /\ \A i \in 1..Len(log') :
              (log'[i].ev = "run" /\ fns'[log'[i].fn].kind = "element") =>
                  \A a \in Range(fns'[log'[i].fn].interpolations) :
                      AttrOr(nodes'[fns'[log'[i].fn].el], a.name, <<>>)
                          = JsString(refs'[1].value)
       /\ op'.name = "processElement" =>
              /\ nodes'[3].text = JsString(refs'[1].value)
              /\ OfKind(fns', {"text"}) # {}
              /\ nodes'[4].updateFn # 0
      ]_vars

\* the bootstrap called r-boom, which throws, then r-x, wrote t, bound the
\* text below the element and went on to the next element
C27_Witness ==
    /\ op.name = "processElement"
    /\ GetDirective(directives, "r-boom") = Thrower
    /\ Called(log) = <<[el |-> 2, name |-> "r-boom"], [el |-> 2, name |-> "r-x"]>>
    /\ AttrOr(nodes[2], "t", <<>>) = JsString(refs[1].value)
    /\ nodes[3].text = JsString(refs[1].value)
    /\ nodes[4].updateFn # 0

\* C28: a flush that processes again an element holding a cached closure
\* leaves closure and classification as they were while __forceUpdate is
\* unset; while it is set the flush builds exactly one closure for the
\* element, however often it processes it, with the classification of the
\* attributes the element then has, and clears the flag.
C28_CachedUnlessForced ==
    [][\A el \in Reprocessed :
           nodes[el].updateFn # 0 =>
               /\ SubSeq(fns', 1, Len(fns)) = fns
               /\ IF nodes[el].forceUpdate
                  THEN /\ Cardinality(Built(el)) = 1
                       /\ nodes'[el].updateFn \in Built(el)
                       /\ ~nodes'[el].forceUpdate
                       /\ AttrMap(fns'[nodes'[el].updateFn])
                              = Classify(Cur, nodes[el].attrs,
                                         [directives |-> <<>>, interpolations |-> <<>>]).v
                  ELSE /\ Built(el) = {}
                       /\ nodes'[el].updateFn = nodes[el].updateFn]_vars

\* a flush processed the first element twice with the flag set: it built one
\* closure, from the attributes as rendered (t holds no interpolation any
\* more), and cleared the flag
C28_Witness ==
    /\ op.name = "flush"
    /\ Cardinality({f \in Range(op.snapshot) :
                        fns[f].kind = "observer" /\ 2 \in Range(fns[f].toProcess)}) >= 2
    /\ \A f \in Range(op.snapshot) : nodes[2].updateFn > f
    /\ ~nodes[2].forceUpdate
    /\ Names(fns[nodes[2].updateFn].directives) = <<"r-boom", "r-x">>
    /\ fns[nodes[2].updateFn].interpolations = <<>>

(***************************************************************************)
(* SpecTeardown: a page whose script declares                              *)
(*     const n = ref(1), l = reactive([2, 1])                              *)
(* and whose body is  <div r-for="n">{{l[0]}}</div>: the text of every     *)
(* item reads the wrapper the script holds.  The bootstrap processes the   *)
(* element; the script assigns 0 and 1 to n and writes l[0].               *)
(***************************************************************************)
TeardownPage ==
    <<[Element(<<[name |-> "r-for", value |-> <<"n">>]>>) EXCEPT !.children = <<2>>],
      TextNode(Interpolation(<<"l", "[", "0", "]">>))>>

InitTeardown ==
    Starts(Reactive(Loaded(Num(1), <<NewArray(<<Num(2), Num(1)>>)>>, TeardownPage, ScopeNames),
                    Raw(2)).s)

\* n.value = c, l[0] = v
DoTeardownWrite ==
    \E s \in {RefSet(Cur, 1, Num(c)) : c \in {0, 1}}
             \cup {ProxySet_(Cur, 2, "0", Num(v)) : v \in {1, 2}} :
        /\ Len(nodes) < MaxTrackNodes
        /\ Install(s)
        /\ op' = [name |-> "write"]
        /\ ret' = Undefined

NextTeardown == DoProcessElement \/ DoTeardownWrite \/ DoFrame

SpecTeardown == InitTeardown /\ [][NextTeardown]_vars

\* the closures a dependency node holds, under any key or under none
AllSubs(dep) == Range(dep.subscribers) \cup UNION {KeySubs(dep, k) : k \in KeysOf(dep)}

\* C30: the text closures that the dependency node of l holds, and those the
\* queue holds, belong to text nodes that are in the document: the closure
\* of a node that r-for discarded is subscribed nowhere and is not enqueued,
\* so l has no more text subscribers than the document has text nodes.
C30_TornDown ==
    /\ \A f \in AllSubs(deps[objs[2].dep]) \cup Range(queue) :
           fns[f].kind = "text" => Observed(Cur, fns[f].node)
    /\ Cardinality(AllSubs(deps[objs[2].dep]) \cap OfKind(fns, {"text"}))
           <= Cardinality({i \in 1..Len(nodes) : nodes[i].type = "text" /\ Observed(Cur, i)})

(***************************************************************************)
(* What r-arr displays (SpecArr).                                          *)
(***************************************************************************)
RECURSIVE Indexes(_, _)
\* the text {{index}} gives for the positions k, k + 1, ... below len
Indexes(k, len) == IF k >= len THEN <<>> ELSE NatToChars(k) \o Indexes(k + 1, len)

\* the element was processed, and no closure is queued and no frame requested
Settled == nodes[1].processed /\ dirs # <<>> /\ queue = <<>> /\ rafPending = 0

\* C31: once the update of r-arr and every flush it caused have run, the
\* container displays, for every position of the list, the text derived from
\* the index that position is bound to: the keys that were reused with a new
\* position show the new index.
C31_ReuseShowsCurrent ==
    Settled => InnerHTML(Cur, 1) = Indexes(0, Len(objs[2].elems))

(***************************************************************************)
(* Reads of nested values (SpecWrap).                                      *)
(***************************************************************************)
\* C32: a read, through a wrapper, of a property that holds a record or a
\* sequence returns the wrapper of that value: the first read and every
\* later read return the same wrapper, never the raw value.
C32_NestedReadWrapped ==
    [][(/\ op'.name = "proxyGet" /\ op'.prop \notin BuiltinProps
        /\ IsObj(ReflectGet(objs[op'.x], op'.prop))) =>
          ret' = Proxy(ReflectGet(objs[op'.x], op'.prop).id)]_vars

(* The active stack (SpecCache). *)
\* C33: the stack of executing closures is balanced: when a handler has
\* returned, whether its evaluators returned or threw, the stack is what it
\* was before, which is empty, no evaluator executing between two handlers.
C33_StackBalanced == activeFns = <<>>

\* the text evaluator of an item threw inside the first render of the
\* directive, which ran inside the update closure of the element: three
\* closures were on the stack, and the stack is empty
C33_Witness ==
    /\ op.name = "processElement"
    /\ Failed(log) # {}
    /\ OfKind(fns, {"text"}) # {} /\ OfKind(fns, {"element"}) # {}
    /\ activeFns = <<>>

(* Dependency nodes (SpecWrap). *)
\* C35: a raw record or sequence has one dependency node for its whole life:
\* the node registered for it is never replaced by a later call of reactive(),
\* on the raw value or on its wrapper, and no call on a value that has a node
\* builds another node.
C35_OneNode ==
    [][/\ \A x \in 1..Len(objs) : objs[x].dep # 0 => objs'[x].dep = objs[x].dep
       /\ (/\ op'.name = "reactive" /\ IsObj(op'.target)
           /\ objs[op'.target.id].dep # 0) => Len(deps') = Len(deps)]_vars

(***************************************************************************)
(* SpecSort: a page whose script declares  const l = reactive([2, 1])  and *)
(* whose body is the text node {{l[0]}}, bound at load.  The script calls  *)
(* l.sort(), with no comparefn and with one that throws, and writes the    *)
(* items of l.                                                             *)
(***************************************************************************)
SortTexts == <<TextNode(Interpolation(<<"l", "[", "0", "]">>))>>

InitSort ==
    Starts(ProcessTextNode_(Reactive(Loaded(Num(0), StoreHeap, SortTexts,
                                            <<[key |-> "l", val |-> Proxy(2)]>>),
                                     Raw(2)).s,
                            1, RootScope))

\* l.sort() and l.sort(() => { throw ... })
DoSort ==
    \E comparefn \in {Undefined, Thrower} :
    \E r \in {ArrayMethod_(ProxyGet_(Cur, 2, "sort").s, 2, "sort",
                           [items |-> <<>>, comparefn |-> comparefn])} :
        /\ Install(r.s)
        /\ op' = [name |-> "sort", comparefn |-> comparefn]
        /\ ret' = IF r.s.thrown THEN Thrown ELSE r.v

\* l[i] = v
DoSortWrite ==
    \E i \in 0..1 :
    \E v \in {Num(1), Num(2), Num(3)} :
        /\ Install(ProxySet_(Cur, 2, IdxName(i), v))
        /\ op' = [name |-> "proxySet", was |-> ReflectGet(objs[2], IdxName(i)), arg |-> v]
        /\ ret' = Undefined

NextSort == DoSort \/ DoSortWrite \/ DoFrame

SpecSort == InitSort /\ [][NextSort]_vars

\* C34: a mutating method of a wrapped sequence leaves the flag that
\* suppresses notifications as it found it, whether it returns or throws, and
\* a later write that changes an item of the sequence is notified.
C34_FlagRestored ==
    [][/\ op'.name = "sort" =>
              deps'[objs[2].dep].notificationDisabled = deps[objs[2].dep].notificationDisabled
       /\ (op'.name = "proxySet" /\ ~SameValue(op'.was, op'.arg)) =>
              NotifyKeys(log') # <<>>
      ]_vars

(***************************************************************************)
(* SpecDup: the page of SpecArr over a list whose items may carry the same *)
(* id:  const l = reactive([{ id: a }, { id: b }]),  a and b in 1..2.      *)
(***************************************************************************)
DupHeap(a, b) ==
    <<NewArray(<<Raw(3), Raw(4)>>), NewRecord(<<[key |-> "id", val |-> Num(a)]>>),
      NewRecord(<<[key |-> "id", val |-> Num(b)]>>)>>

InitDup ==
    \E a, b \in 1..2 :
        Starts(Reactive(Loaded(Num(0), DupHeap(a, b), Repeater("r-arr"),
                               <<[key |-> "l", val |-> Proxy(2)]>>),
                        Raw(2)).s)

\* an animation frame, while the DOM heap holds fewer than MaxNodes nodes: with
\* two items under one key every render writes the shared scope and queues
\* the directive's closure again
DoDupFrame == Len(nodes) < MaxNodes /\ DoFrame

NextDup == DoProcessElement \/ DoListMethod \/ DoDupFrame

SpecDup == InitDup /\ [][NextDup]_vars

\* this step ran the update closure of r-arr to its end
Renders ==
    /\ dirs' # <<>> /\ Failed(log') = {}
    /\ \/ op'.name = "processElement"
       \/ op'.name = "flush" /\ \E f \in Range(queue) : fns[f].kind = "arr"

\* C36: when a render of r-arr ends, every position of the list has an item
\* scope of its own, holding the item and the index of that position: no
\* position's item and index were overwritten by those of another position,
\* also when two items have the same id.
C36_DistinctScopes ==
    [][Renders =>
          \A i \in 1..Len(objs'[2].elems) :
              \E e \in Range(dirs'[1].nodeCache) :
                  /\ ScopeField(objs', e, "index") = Num(i - 1)
                  /\ ScopeField(objs', e, "value") = objs'[2].elems[i]]_vars

(***************************************************************************)
(* _Router.  A Map is a sequence of [key, val] entries in insertion order. *)
(* The browser's session history is the sequence `entries` of the path     *)
(* parameters of its URLs, `index` the current entry, `location` the path  *)
(* parameter of window.location; `timers` are the setTimeout callbacks of  *)
(* nav() that have not run, `listeners` the popstate listeners init() has  *)
(* added.  A page container of pageContainers is its element and the       *)
(* style.display of that element.                                          *)
(***************************************************************************)
\* map.set(key, val)
Put(map, key, val) ==
    IF Bound(map, key)
    THEN List([i \in 1..Len(map) |-> IF map[i].key = key THEN [key |-> key, val |-> val]
                                     ELSE map[i]])
    ELSE Append(map, [key |-> key, val |-> val])

\* _Router.add
RouterAdd(s, path, handler) ==
    IF handler.k # "function" THEN s
    ELSE [s EXCEPT !.router.routes = Put(@, path, handler)]

\* _Router._parsePath: url.searchParams.get("path") || ""
ParsePath(s) == s.router.location

\* pageContainers.forEach(container => container.style.display = "none")
HideAll(pageContainers) ==
    List([i \in 1..Len(pageContainers) |->
             [pageContainers[i] EXCEPT !.val.display = "none"]])

\* targetContainer.style.display = "block", when the path has a container
Show(pageContainers, path) ==
    List([i \in 1..Len(pageContainers) |->
             IF pageContainers[i].key = path
             THEN [pageContainers[i] EXCEPT !.val.display = "block"]
             ELSE pageContainers[i]])

\* an _executeRoute that hides no page before it shows the target
ExecuteRouteNoHide(s, path) ==
    IF s.router.currentPath = path THEN s
    ELSE Bind([s EXCEPT !.router.pageContainers = Show(@, path),
                        !.router.currentPath = path],
              LAMBDA s1 :
                  IF Bound(s1.router.routes, path)
                  THEN Logged(s1, [ev |-> "handler", path |-> path,
                                   threw |-> Lookup(s1.router.routes, path) = Thrower])
                  ELSE s1)

\* _Router._executeRoute: what the handler throws is caught and logged
ExecuteRoute(s, path) ==
    IF s.router.currentPath = path THEN s
    ELSE Bind([s EXCEPT !.router.pageContainers = Show(HideAll(@), path),
                        !.router.currentPath = path],
              LAMBDA s1 :
                  IF Bound(s1.router.routes, path)
                  THEN Logged(s1, [ev |-> "handler", path |-> path,
                                   threw |-> Lookup(s1.router.routes, path) = Thrower])
                  ELSE s1)

\* document.getElementById("view")
RouterView == 2

\* _Router._renderPage
RenderPage(s, path, container) ==
    Bind(Create(s, Element(<<[name |-> "class", value |-> <<"r">>],
                             [name |-> "data-route-path", value |-> <<path>>]>>)),
         LAMBDA pageContainer :
    Bind([pageContainer.s EXCEPT !.router.pageContainers =
              Put(@, path, [el |-> pageContainer.v, display |-> "none"])],
         LAMBDA s1 :
    Bind(IF Bound(s1.router.originalPageElements, path)
            /\ Lookup(s1.router.originalPageElements, path) # <<>>
         THEN ProcessElement_(SetInnerHTML(s1, pageContainer.v,
                                           Lookup(s1.router.originalPageElements, path)),
                              pageContainer.v, RootScope)
         ELSE s1,
         LAMBDA s2 : IF s2.thrown THEN s2
                     ELSE AppendChild(s2, container, pageContainer.v))))

RECURSIVE RenderPages(_, _, _)
\* this.routes.forEach((_, path) => this._renderPage(path, routerView))
RenderPages(s, routes, container) ==
    IF routes = <<>> \/ s.thrown THEN s
    ELSE RenderPages(RenderPage(s, Head(routes).key, container), Tail(routes), container)

\* _Router._prerenderAllPages
PrerenderAllPages(s) ==
    IF Len(s.nodes) < RouterView THEN s
    ELSE RenderPages(ClearChildren(s, RouterView), s.router.routes, RouterView)

\* the elements of the document that carry an r-page attribute, in document
\* order: the elements of the model's documents are created in that order
PageElements(s) ==
    SelectSeq([i \in 1..Len(s.nodes) |-> i],
              LAMBDA i : /\ s.nodes[i].type = "element"
                         /\ \E a \in Range(s.nodes[i].attrs) : a.name = "r-page"
                         /\ ParentOf(s, i) # 0)

RECURSIVE CollectPages(_, _)
\* the loop of _collectAndRemoveOriginalPages; the handler of a page is
\* new Function()
CollectPages(s, pageElements) ==
    IF pageElements = <<>> THEN s
    ELSE CollectPages(
             IF AttrOr(s.nodes[Head(pageElements)], "r-page", <<>>) # <<>>
             THEN Detach(RouterAdd(
                             [s EXCEPT !.router.originalPageElements =
                                 Put(@, Join(AttrOr(s.nodes[Head(pageElements)], "r-page",
                                                    <<>>)),
                                     InnerHTML(s, Head(pageElements)))],
                             Join(AttrOr(s.nodes[Head(pageElements)], "r-page", <<>>)),
                             FunctionV),
                         Head(pageElements))
             ELSE s,
             Tail(pageElements))

\* _Router._collectAndRemoveOriginalPages
CollectAndRemoveOriginalPages(s) == CollectPages(s, PageElements(s))

\* _Router.init
RouterInit(s) ==
    Bind(PrerenderAllPages(CollectAndRemoveOriginalPages(s)), LAMBDA s1 :
         IF s1.thrown THEN s1
         ELSE [(IF ParsePath(s) # "" /\ Bound(s1.router.routes, ParsePath(s))
                THEN ExecuteRoute(s1, ParsePath(s)) ELSE s1)
                  EXCEPT !.router.listeners = @ + 1])

\* _Router.nav: setTimeout(callback, 5)
Nav(s, path, replace) ==
    [s EXCEPT !.router.timers = Append(@, [path |-> path, replace |-> replace])]

\* window.history.replaceState / pushState, with the URL whose path parameter
\* is path
SetState(r, path, replace) ==
    IF replace
    THEN [r EXCEPT !.location = path, !.entries[r.index] = path]
    ELSE [r EXCEPT !.location = path, !.entries = Append(SubSeq(@, 1, r.index), path),
                   !.index = @ + 1]

\* the callback nav() gave to setTimeout
NavCallback(s, path, replace) ==
    IF ~Bound(s.router.routes, path) THEN s
    ELSE ExecuteRoute([s EXCEPT !.router = SetState(@, path, replace)], path)

\* _Router._popstateHandler
PopstateHandler(s) ==
    IF ParsePath(s) # "" /\ ParsePath(s) # s.router.currentPath
    THEN ExecuteRoute(s, ParsePath(s))
    ELSE s

RECURSIVE Dispatch(_, _)
\* the popstate event, delivered to every listener that was added
Dispatch(s, listeners) ==
    IF listeners = 0 THEN s ELSE Dispatch(PopstateHandler(s), listeners - 1)

\* the browser moves to another entry of the session history and fires
\* popstate
Traverse(s, delta) ==
    Dispatch([s EXCEPT !.router.index = @ + delta,
                       !.router.location = s.router.entries[s.router.index + delta]],
             s.router.listeners)

(***************************************************************************)
(* SpecRouter: a document whose body holds  <div r-app></div>  and         *)
(*     <div id="view"><div r-page="a">{{n}}</div></div>                    *)
(* loaded at a URL whose path parameter is missing, "a" or "x", the script *)
(* declaring  const n = ref(0).  The bootstrap has processed appRoot; it   *)
(* calls _Router.init(), the script calls router.add and router.nav, and   *)
(* the user goes back and forward in the history.                          *)
(***************************************************************************)
MaxTimers == 1      \* nav() is not called while this many of its timers are pending
MaxHistory == 2     \* no entry is pushed once the history holds this many

RouterDocument ==
    <<Element(<<>>),
      [Element(<<[name |-> "id", value |-> <<"v">>]>>) EXCEPT !.children = <<3>>],
      [Element(<<[name |-> "r-page", value |-> <<"a">>]>>) EXCEPT !.children = <<4>>],
      TextNode(Interpolation(<<"n">>))>>

\* the browser at a URL whose path parameter is path
At(s, path) == [s EXCEPT !.router.location = path, !.router.entries = <<path>>]

InitRouter ==
    \E path \in {"", "a", "x"} :
        Starts(At(ProcessElement_(Loaded(Num(0), <<>>, RouterDocument,
                                         <<[key |-> "n", val |-> RefV(1)]>>),
                                  AppRoot, RootScope),
                  path))

\* router.add(path, handler): a function that throws, no function
DoRouterAdd ==
    \E path \in {"a", "c"} :
    \E handler \in {Thrower, Undefined} :
        /\ Install(RouterAdd(Cur, path, handler))
        /\ op' = [name |-> "add", path |-> path]
        /\ ret' = Undefined

\* _Router.init(), called by the bootstrap
DoRouterInit ==
    /\ router.listeners = 0
    /\ Install(RouterInit(Cur))
    /\ op' = [name |-> "init", path |-> ParsePath(Cur)]
    /\ ret' = Undefined

\* router.nav(path, replace)
DoNav ==
    \E path \in {"a", "c", "x"} :
    \E replace \in BOOLEAN :
        /\ Len(router.timers) < MaxTimers
        /\ Install(Nav(Cur, path, replace))
        /\ op' = [name |-> "nav", path |-> path]
        /\ ret' = Undefined

\* the timer of the oldest pending nav() fires
DoNavTimer ==
    /\ router.timers # <<>>
    /\ Head(router.timers).replace \/ Len(router.entries) < MaxHistory
    /\ Install(NavCallback([Cur EXCEPT !.router.timers = Tail(@)],
                           Head(router.timers).path, Head(router.timers).replace))
    /\ op' = [name |-> "navTimer", path |-> Head(router.timers).path]
    /\ ret' = Undefined

\* the user goes back or forward
DoPopstate ==
    \E delta \in {-1, 1} :
        /\ router.index + delta \in 1..Len(router.entries)
        /\ Install(Traverse(Cur, delta))
        /\ op' = [name |-> "popstate", path |-> router.entries[router.index + delta]]
        /\ ret' = Undefined

NextRouter == DoRouterAdd \/ DoRouterInit \/ DoNav \/ DoNavTimer \/ DoPopstate

SpecRouter == InitRouter /\ [][NextRouter]_vars

\* the paths whose page container is displayed
Visible(r) == {r.pageContainers[i].key :
                   i \in {j \in 1..Len(r.pageContainers) :
                              r.pageContainers[j].val.display # "none"}}

\* C37: after every init, nav and popstate the current path is empty or a
\* registered route, and the timer of a nav() to a path that is no route
\* changes neither the current path nor the page that is visible.
C37_CurrentIsRoute ==
    [][/\ router'.currentPath = "" \/ Bound(router'.routes, router'.currentPath)
       /\ (op'.name = "navTimer" /\ ~Bound(router.routes, op'.path)) =>
              /\ router'.currentPath = router.currentPath
              /\ router'.pageContainers = router.pageContainers]_vars

\* the handler calls of the last step
HandlerCalls(events) == SelectSeq(events, LAMBDA e : e.ev = "handler")

\* C38: at most one page container is visible; a step that executes a route
\* leaves visible the container of the path it made current and no other,
\* having called the handler of the route once, also when that handler
\* throws; a step that executes the path that is current changes no
\* container and calls no handler.
C38_OneVisible ==
    [][/\ Cardinality(Visible(router')) <= 1
       /\ router'.currentPath # router.currentPath =>
              /\ Visible(router') =
                     {p \in {router'.currentPath} : Bound(router'.pageContainers, p)}
              /\ Bound(router'.routes, router'.currentPath) =>
                     /\ Len(HandlerCalls(log')) = 1
                     /\ HandlerCalls(log')[1].path = router'.currentPath
       /\ (op'.name \in {"navTimer", "popstate"} /\ op'.path = router.currentPath) =>
              /\ router'.pageContainers = router.pageContainers
              /\ router'.currentPath = router.currentPath
              /\ HandlerCalls(log') = <<>>]_vars

\* the timer of nav("a") ran while the page of c was visible, and the handler
\* of a, which the script replaced, threw: a is current and the only visible
\* page
C38_Witness ==
    /\ op.name = "navTimer" /\ op.path = "a"
    /\ HandlerCalls(log) = <<[ev |-> "handler", path |-> "a", threw |-> TRUE]>>
    /\ router.currentPath = "a" /\ Visible(router) = {"a"}
    /\ Cardinality({i \in 1..Len(router.pageContainers) :
                        router.pageContainers[i].val.display = "none"}) >= 1

(***************************************************************************)
(* SpecDom: a page that holds <template r-cp="C">, whose script declares   *)
(* const n = ref(0) and whose body is                                      *)
(*     <div r-dom="C" $x="n">hi</div><div r-dom="D"></div>                 *)
(* The bootstrap processes appRoot.  A script then sets or deletes         *)
(* window.C, the factory of C; the interval of a retry timer fires; a      *)
(* script dispatches "beforeunload" on the first element, and appends an   *)
(* element of the body to appRoot again, which the observer answers by     *)
(* processing it.                                                          *)
(***************************************************************************)
DomPage ==
    <<[Element(<<>>) EXCEPT !.children = <<2, 4>>],
      [Element(<<[name |-> "r-dom", value |-> <<" ", "C">>],
                 [name |-> "$x", value |-> <<"n">>]>>) EXCEPT !.children = <<3>>],
      TextNode(<<"h", "i">>),
      Element(<<[name |-> "r-dom", value |-> <<"D">>]>>)>>

InitDom ==
    Starts([RegisterDirective(Loaded(Num(0), <<>>, DomPage,
                                     <<[key |-> "n", val |-> RefV(1)]>>),
                              "r-dom", Handler("r-dom"))
               EXCEPT !.components.templates = <<"C">>])

\* window.C = v, or delete window.C
DoSetWindow ==
    \E v \in {Undefined, Handler("C"), Thrower} :
        /\ WindowGet(Cur, "C") # v
        /\ Install([Cur EXCEPT !.components.window =
                        IF v = Undefined THEN <<>> ELSE <<[key |-> "C", val |-> v]>>])
        /\ op' = [name |-> "setWindow"]
        /\ ret' = Undefined

\* the interval of a retry timer that was not cleared fires
DoRetryTick ==
    \E d \in 1..Len(dirs) :
        /\ dirs[d].kind = "dom"
        /\ dirs[d].retryTimer
        /\ Install(RetryTick(Cur, d))
        /\ op' = [name |-> "retryTick", dir |-> d]
        /\ ret' = Undefined

\* el.dispatchEvent(new Event("beforeunload"))
DoBeforeunload ==
    \E el \in {2} :
        /\ nodes[AppRoot].processed
        /\ Install(Beforeunload(Cur, el, nodes[el].cleanups))
        /\ op' = [name |-> "beforeunload", el |-> el]
        /\ ret' = Undefined

NextDom == DoProcessElement \/ DoSetWindow \/ DoRetryTick \/ DoBeforeunload
               \/ DoAppendChild \/ DoFrame

SpecDom == InitDom /\ [][NextDom]_vars

\* the calls of the r-dom handler that went past the template check
DomCalls(list) == {d \in 1..Len(list) : list[d].kind = "dom"}

\* C39: the interval callback counts its attempts and makes at most
\* MAX_RETRY_COUNT of them for one call of the handler; an attempt that finds
\* a factory clears the timer, and so does the third attempt that finds none;
\* at most one timer is active for an element; the cleanup of the element
\* leaves none active, and a handler call whose cleanup ran holds none.
C39_RetryBounded ==
    [][/\ \A d \in DomCalls(dirs') :
              /\ dirs'[d].retryCount <= MAX_RETRY_COUNT
              /\ dirs'[d].retryTimer => dirs'[d].retryCount < MAX_RETRY_COUNT
              /\ dirs'[d].retryTimer => dirs'[d].listening
       /\ \A el \in 1..Len(nodes') :
              Cardinality({d \in DomCalls(dirs') :
                               dirs'[d].el = el /\ dirs'[d].retryTimer}) <= 1
       /\ op'.name = "retryTick" =>
              /\ dirs'[op'.dir].retryCount = dirs[op'.dir].retryCount + 1
              /\ WindowGet(Cur, "C").k = "function" => ~dirs'[op'.dir].retryTimer
              /\ \A d \in DomCalls(dirs) \ {op'.dir} : dirs'[d] = dirs[d]
       /\ op'.name = "beforeunload" =>
              \A d \in DomCalls(dirs') : dirs'[d].el = op'.el => ~dirs'[d].retryTimer
      ]_vars

\* the third attempt found no factory and cleared the timer
C39_Witness ==
    /\ op.name = "retryTick"
    /\ dirs[op.dir].retryCount = MAX_RETRY_COUNT
    /\ ~dirs[op.dir].retryTimer
    /\ ~dirs[op.dir].componentInstance
    /\ WindowGet(Cur, "C") = Undefined
====
